---- MODULE Spec2Model ----
(***************************************************************************)
(* Verification model of saam: the reentrant shared/exclusive lock         *)
(* (shared_recursive_mutex), the concurrency-safe owner (synchronized)     *)
(* with its locked views (guard) and condition wait, and the borrow        *)
(* managers (counted / tracked) that verify dangling references when an    *)
(* owner (var) is destroyed.                                               *)
(***************************************************************************)
EXTENDS Integers, Sequences, FiniteSets, TLC

(***************************************************************************)
(* Bounds of the model                                                     *)
(***************************************************************************)
NumThreads == 3
MaxDepth == 2
NumSlots == 2
MaxValue == 1
MaxCalls == 2
NumClients == 2
NumVars == 2
NumRefs == 3
NumBlindfolds == 2
NumSyncs == 2
MaxGuards == 1
MaxThrows == 1

Threads == 1..NumThreads
NoThread == 0
Slots == 1..NumSlots
Clients == 1..NumClients
Owners == 1..NumVars
Refs == 1..NumRefs
Blinds == 1..NumBlindfolds
Syncs == 1..NumSyncs
NoSync == 0
NoManager == 0
NoSlot == 0

(***************************************************************************)
(* State                                                                   *)
(***************************************************************************)
VARIABLES
    lock_count_,            \* shared_recursive_mutex::lock_count_
    unique_owner_thread_,   \* shared_recursive_mutex::unique_owner_thread_
    internal_mutex_,        \* holder of shared_recursive_mutex::internal_mutex_
    mutex_free_condition_,  \* threads blocked on mutex_free_condition_
    pc,                     \* position of every thread inside the current call
    excl,                   \* exclusive registrations made for the thread and not yet unregistered
    shrd,                   \* shared registrations made for the thread and not yet unregistered
    ret,                    \* result of the thread's last try_lock / try_lock_shared / wait
    aborted,                \* the process was ended by a failed assert or by abort()
    ndebug,                 \* the build compiles assert() away
    protected_instance_,    \* synchronized<T>::protected_instance_, the protected value
    guards,                 \* the guard objects of every thread
    condition_variable_,    \* threads blocked on condition::condition_variable_
    op,                     \* arguments and locals of the call a thread is inside
    budget,                 \* guard constructions and waits the thread may still start
    strategy,               \* the borrow manager of the owners: "counted" or "tracked"
    dangling_reference_panic, \* tracked: the global hook holds a callable
    var_alive,              \* the owner (var) has not entered its destructor
    counter_,               \* counted_borrow_manager::counter_ of every owner
    ref_chain_root_,        \* tracked_borrow_manager: the chain of every owner, head first
    refs,                   \* the views (ref): constructed or not, and ref_base::borrow_manager_
    panic_log,              \* the calls of the panic function / hook, in order
    blindfolds,             \* the blindfold objects of every thread
    mutexes,                \* synchronized::mutex_ of every synchronized object
    active_mutex_,          \* the object whose mutex_ each active_mutex_ refers to
    instances,              \* synchronized::protected_instance_ of every object
    views,                  \* the guard of every thread on every object
    call,                   \* the operation of a synchronized each thread is inside
    panic_triggered_,       \* panic_handler::panic_triggered_ of global_panic_handler
    panic_action_,          \* which callable panic_handler::panic_action_ holds
    assign,                 \* the copy assignment of a counted_ref that is under way
    instance_,              \* basic_var::instance_ of every owner
    var_pc,                 \* the position of every owner in its constructor / destructor
    manager_mutex_,         \* holder of tracked_borrow_manager::mutex_ of every owner
    verifying,              \* the position of every thread inside verify_dangling_references
    bad_cast                \* the std::bad_cast exceptions that dynamic_down_cast has thrown

mutexVars == <<lock_count_, unique_owner_thread_, internal_mutex_, mutex_free_condition_>>
threadVars == <<pc, excl, shrd, ret>>
buildVars == <<aborted, ndebug>>
syncVars == <<protected_instance_, guards, condition_variable_, op, budget>>
borrowVars == <<strategy, dangling_reference_panic, var_alive, counter_, ref_chain_root_, refs,
                panic_log, bad_cast>>
sharedVars == <<mutexes, active_mutex_, instances, views, call>>
legacyVars == <<panic_triggered_, panic_action_, assign>>
ownerVars == <<instance_, var_pc>>
trackedVars == <<manager_mutex_, verifying>>
vars == <<mutexVars, threadVars, buildVars, syncVars, borrowVars, blindfolds, sharedVars,
          legacyVars, ownerVars, trackedVars>>

(***************************************************************************)
(* shared_recursive_mutex: state predicates                                *)
(***************************************************************************)
lock_is_free == lock_count_ = 0

mutex_is_locked_unique == lock_count_ < 0

mutex_is_locked_unique_by_thread_inverted(t) ==
    mutex_is_locked_unique /\ unique_owner_thread_ # t

mutex_is_locked_unique_by_thread(t) ==
    mutex_is_locked_unique /\ unique_owner_thread_ = t

mutex_is_locked_shared_off_by_one == lock_count_ > 1

mutex_is_locked_shared_nonzero == lock_count_ # 0

mutex_is_locked_shared == lock_count_ > 0

acquire_internal_mutex == internal_mutex_ = NoThread

(***************************************************************************)
(* shared_recursive_mutex: the bookkeeping steps.  A step runs with the    *)
(* internal mutex held; the wait on mutex_free_condition_ releases it.     *)
(* done and wait name where the caller continues when the registration     *)
(* succeeded and when the thread went to sleep on mutex_free_condition_.   *)
(***************************************************************************)
\* one evaluation of mutex_free_condition_.wait(lock, pred) and the registration
register_unique_count(t, done, wait) ==
    IF lock_is_free \/ mutex_is_locked_unique_by_thread(t)
    THEN /\ unique_owner_thread_' = t
         /\ lock_count_' = lock_count_ - 1
         /\ excl' = [excl EXCEPT ![t] = @ + 1]
         /\ pc' = [pc EXCEPT ![t] = done]
         /\ UNCHANGED mutex_free_condition_
    ELSE /\ mutex_free_condition_' = mutex_free_condition_ \cup {t}
         /\ pc' = [pc EXCEPT ![t] = wait]
         /\ UNCHANGED <<unique_owner_thread_, lock_count_, excl>>

register_shared_count_reentrant(t, done, wait) ==
    IF lock_is_free \/ mutex_is_locked_shared \/ mutex_is_locked_unique_by_thread(t)
    THEN /\ lock_count_' = lock_count_ + 1
         /\ shrd' = [shrd EXCEPT ![t] = @ + 1]
         /\ pc' = [pc EXCEPT ![t] = done]
         /\ UNCHANGED mutex_free_condition_
    ELSE /\ mutex_free_condition_' = mutex_free_condition_ \cup {t}
         /\ pc' = [pc EXCEPT ![t] = wait]
         /\ UNCHANGED <<lock_count_, shrd>>

register_shared_count(t, done, wait) ==
    IF lock_is_free \/ mutex_is_locked_shared
    THEN /\ lock_count_' = lock_count_ + 1
         /\ shrd' = [shrd EXCEPT ![t] = @ + 1]
         /\ pc' = [pc EXCEPT ![t] = done]
         /\ UNCHANGED mutex_free_condition_
    ELSE /\ mutex_free_condition_' = mutex_free_condition_ \cup {t}
         /\ pc' = [pc EXCEPT ![t] = wait]
         /\ UNCHANGED <<lock_count_, shrd>>

try_register_unique_count(t) ==
    IF lock_is_free \/ mutex_is_locked_unique_by_thread(t)
    THEN /\ unique_owner_thread_' = t
         /\ lock_count_' = lock_count_ - 1
         /\ excl' = [excl EXCEPT ![t] = @ + 1]
         /\ ret' = [ret EXCEPT ![t] = "true"]
    ELSE /\ ret' = [ret EXCEPT ![t] = "false"]
         /\ UNCHANGED <<unique_owner_thread_, lock_count_, excl>>

try_register_shared_count(t) ==
    IF lock_is_free \/ mutex_is_locked_shared
    THEN /\ lock_count_' = lock_count_ + 1
         /\ shrd' = [shrd EXCEPT ![t] = @ + 1]
         /\ ret' = [ret EXCEPT ![t] = "true"]
    ELSE /\ ret' = [ret EXCEPT ![t] = "false"]
         /\ UNCHANGED <<lock_count_, shrd>>

unregister_unique_count_reset(t) ==
    /\ lock_count_' = 0
    /\ excl' = [excl EXCEPT ![t] = @ - 1]
    /\ UNCHANGED aborted

\* the assert ends the process in a build with assertions; a build without
\* them goes on and increments the counter
unregister_unique_count(t) ==
    IF mutex_is_locked_unique_by_thread(t) \/ ndebug
    THEN /\ lock_count_' = lock_count_ + 1
         /\ excl' = [excl EXCEPT ![t] = @ - 1]
         /\ UNCHANGED aborted
    ELSE /\ aborted' = TRUE
         /\ UNCHANGED <<lock_count_, excl>>

unregister_shared_count(t) ==
    IF mutex_is_locked_shared \/ ndebug
    THEN /\ lock_count_' = lock_count_ - 1
         /\ shrd' = [shrd EXCEPT ![t] = @ - 1]
         /\ UNCHANGED aborted
    ELSE /\ aborted' = TRUE
         /\ UNCHANGED <<lock_count_, shrd>>

\* mutex_free_condition_.notify_all() / notify_one()
notify_mutex_free_condition(notify_all) ==
    IF notify_all
    THEN mutex_free_condition_' = {}
    ELSE \/ /\ mutex_free_condition_ = {}
            /\ UNCHANGED mutex_free_condition_
         \/ \E w \in mutex_free_condition_ :
                mutex_free_condition_' = mutex_free_condition_ \ {w}

(***************************************************************************)
(* shared_recursive_mutex: the public operations, called by thread t.      *)
(* A caller unlocks only what it has locked.                               *)
(***************************************************************************)
Holds(t) == excl[t] + shrd[t]

lock(t) ==
    /\ pc[t] = "idle"
    /\ Holds(t) < MaxDepth
    /\ acquire_internal_mutex
    /\ register_unique_count(t, "idle", "lock_wait")
    /\ ret' = [ret EXCEPT ![t] = "-"]
    /\ UNCHANGED <<internal_mutex_, shrd, aborted>>

\* the thread was woken on mutex_free_condition_ and re-evaluates the predicate
lock_wakeup(t) ==
    /\ pc[t] = "lock_wait"
    /\ t \notin mutex_free_condition_
    /\ acquire_internal_mutex
    /\ register_unique_count(t, "idle", "lock_wait")
    /\ UNCHANGED <<internal_mutex_, shrd, ret, aborted>>

try_lock(t) ==
    /\ pc[t] = "idle"
    /\ Holds(t) < MaxDepth
    /\ acquire_internal_mutex
    /\ try_register_unique_count(t)
    /\ UNCHANGED <<internal_mutex_, mutex_free_condition_, pc, shrd, aborted>>

unlock(t) ==
    /\ pc[t] = "idle"
    /\ excl[t] > 0
    /\ acquire_internal_mutex
    /\ unregister_unique_count(t)
    /\ pc' = [pc EXCEPT ![t] = "unlock_notify"]
    /\ ret' = [ret EXCEPT ![t] = "-"]
    /\ UNCHANGED <<unique_owner_thread_, internal_mutex_, mutex_free_condition_, shrd>>

unlock_notify_silent(t) ==
    /\ pc[t] = "unlock_notify"
    /\ pc' = [pc EXCEPT ![t] = "idle"]
    /\ UNCHANGED <<lock_count_, unique_owner_thread_, internal_mutex_, mutex_free_condition_,
                   excl, shrd, ret, aborted>>

unlock_notify(t) ==
    /\ pc[t] = "unlock_notify"
    /\ notify_mutex_free_condition(TRUE)
    /\ pc' = [pc EXCEPT ![t] = "idle"]
    /\ UNCHANGED <<lock_count_, unique_owner_thread_, internal_mutex_, excl, shrd, ret, aborted>>

lock_shared(t) ==
    /\ pc[t] = "idle"
    /\ Holds(t) < MaxDepth
    /\ acquire_internal_mutex
    /\ register_shared_count(t, "idle", "lock_shared_wait")
    /\ ret' = [ret EXCEPT ![t] = "-"]
    /\ UNCHANGED <<unique_owner_thread_, internal_mutex_, excl, aborted>>

lock_shared_wakeup(t) ==
    /\ pc[t] = "lock_shared_wait"
    /\ t \notin mutex_free_condition_
    /\ acquire_internal_mutex
    /\ register_shared_count(t, "idle", "lock_shared_wait")
    /\ UNCHANGED <<unique_owner_thread_, internal_mutex_, excl, ret, aborted>>

try_lock_shared(t) ==
    /\ pc[t] = "idle"
    /\ Holds(t) < MaxDepth
    /\ acquire_internal_mutex
    /\ try_register_shared_count(t)
    /\ UNCHANGED <<unique_owner_thread_, internal_mutex_, mutex_free_condition_, pc, excl, aborted>>

unlock_shared(t) ==
    /\ pc[t] = "idle"
    /\ shrd[t] > 0
    /\ acquire_internal_mutex
    /\ unregister_shared_count(t)
    /\ pc' = [pc EXCEPT ![t] = "unlock_shared_notify"]
    /\ ret' = [ret EXCEPT ![t] = "-"]
    /\ UNCHANGED <<unique_owner_thread_, internal_mutex_, mutex_free_condition_, excl>>

unlock_shared_notify(t) ==
    /\ pc[t] = "unlock_shared_notify"
    /\ notify_mutex_free_condition(FALSE)
    /\ pc' = [pc EXCEPT ![t] = "idle"]
    /\ UNCHANGED <<lock_count_, unique_owner_thread_, internal_mutex_, excl, shrd, ret, aborted>>

\* std::condition_variable::wait may return without a notification
spurious_wakeup(t) ==
    /\ t \in mutex_free_condition_
    /\ mutex_free_condition_' = mutex_free_condition_ \ {t}
    /\ UNCHANGED <<lock_count_, unique_owner_thread_, internal_mutex_, threadVars, aborted>>

(***************************************************************************)
(* Initial state: a freshly constructed mutex and synchronized<T>, no      *)
(* guard alive, every thread outside any call                              *)
(***************************************************************************)
NoGuard == [st |-> "none", kind |-> "-"]
NoOp == [slot |-> NoSlot, src |-> NoSlot, timed |-> FALSE, final |-> FALSE, met |-> FALSE, before |-> 0]

MutexInit ==
    /\ lock_count_ = 0
    /\ unique_owner_thread_ = NoThread
    /\ internal_mutex_ = NoThread
    /\ mutex_free_condition_ = {}

ThreadInit ==
    /\ pc = [t \in Threads |-> "idle"]
    /\ excl = [t \in Threads |-> 0]
    /\ shrd = [t \in Threads |-> 0]
    /\ ret = [t \in Threads |-> "-"]

NoBlindfold == [st |-> "none", original_guard_ |-> NoSlot, unlocked_guard_ |-> NoGuard]

SyncInit ==
    /\ protected_instance_ = 0
    /\ blindfolds = [t \in Threads |-> [b \in Blinds |-> NoBlindfold]]
    /\ guards = [t \in Threads |-> [g \in Slots |-> NoGuard]]
    /\ condition_variable_ = {}
    /\ op = [t \in Threads |-> NoOp]
    /\ budget = [t \in Threads |-> MaxCalls]

NoRef == [alive |-> FALSE, borrow_manager_ |-> NoManager]

\* owners without any view
BorrowInit ==
    /\ var_alive = [o \in Owners |-> TRUE]
    /\ counter_ = [o \in Owners |-> 0]
    /\ ref_chain_root_ = [o \in Owners |-> <<>>]
    /\ refs = [v \in Refs |-> NoRef]
    /\ panic_log = <<>>
    /\ bad_cast = 0

NoView == [st |-> "none", kind |-> "-", mutex_ |-> NoSync]
NoCall == [name |-> "none", target |-> NoSync, other |-> NoSync, value |-> 0]

SharedInit ==
    /\ mutexes = [m \in Syncs |-> [lock_count_ |-> 0, unique_owner_thread_ |-> NoThread]]
    /\ active_mutex_ = [s \in Syncs |-> s]
    /\ instances = [s \in Syncs |-> 0]
    /\ views = [t \in Clients |-> [s \in Syncs |-> NoView]]
    /\ call = [t \in Clients |-> NoCall]

NoRefSlot == 0
NoAssign == [dst |-> NoRefSlot, src |-> NoRefSlot, owner |-> NoManager, before |-> 0]

LegacyInit ==
    /\ panic_triggered_ = FALSE
    /\ assign = NoAssign

NoVerify == [pc |-> "none", var |-> NoManager, index |-> 0]

TrackedInit ==
    /\ manager_mutex_ = [o \in Owners |-> NoThread]
    /\ verifying = [t \in Clients |-> NoVerify]

\* the value of an owner that was constructed from v, before any hook ran
FreshInstance(v) ==
    [value |-> v, manager_ |-> NoManager, self_view |-> NoRefSlot, moved |-> FALSE,
     origin |-> "value", source |-> NoManager, released |-> FALSE]

OwnerInit ==
    /\ instance_ = [o \in Owners |-> FreshInstance(0)]
    /\ var_pc = [o \in Owners |-> "alive"]

Init ==
    /\ MutexInit
    /\ ThreadInit
    /\ SyncInit
    /\ SharedInit
    /\ LegacyInit
    /\ TrackedInit
    /\ panic_action_ = "default"
    /\ OwnerInit
    /\ BorrowInit
    /\ strategy = "counted"
    /\ dangling_reference_panic = FALSE
    /\ aborted = FALSE
    /\ ndebug \in BOOLEAN

(***************************************************************************)
(* Specification of one shared_recursive_mutex used through its own        *)
(* interface by NumThreads threads                                         *)
(***************************************************************************)
MutexStep(t) ==
    \/ lock(t)
    \/ lock_wakeup(t)
    \/ try_lock(t)
    \/ unlock(t)
    \/ unlock_notify(t)
    \/ lock_shared(t)
    \/ lock_shared_wakeup(t)
    \/ try_lock_shared(t)
    \/ unlock_shared(t)
    \/ unlock_shared_notify(t)
    \/ spurious_wakeup(t)

Next ==
    /\ ~aborted
    /\ \E t \in Threads : MutexStep(t)
    /\ UNCHANGED <<ndebug, syncVars, borrowVars, blindfolds, sharedVars, legacyVars, ownerVars, trackedVars>>

Spec == Init /\ [][Next]_vars

(***************************************************************************)
(* The same mutex with the scheduling the callers provide: a thread that   *)
(* is inside a call goes on when it can (a woken thread evaluates its      *)
(* predicate again, unlock reaches its notify), and a thread that holds    *)
(* the lock releases it.  Which waiter notify_one wakes is not scheduled.  *)
(***************************************************************************)
MutexContinue(t) ==
    \/ lock_wakeup(t)
    \/ lock_shared_wakeup(t)
    \/ unlock_notify(t)
    \/ unlock_shared_notify(t)

MutexRelease(t) == unlock(t) \/ unlock_shared(t)

MutexFairness ==
    \A t \in Threads :
        /\ WF_vars(~aborted /\ MutexContinue(t) /\ UNCHANGED <<ndebug, syncVars, borrowVars, blindfolds, sharedVars, legacyVars, ownerVars, trackedVars>>)
        /\ WF_vars(~aborted /\ MutexRelease(t) /\ UNCHANGED <<ndebug, syncVars, borrowVars, blindfolds, sharedVars, legacyVars, ownerVars, trackedVars>>)

SpecFair == Init /\ [][Next]_vars /\ MutexFairness

(***************************************************************************)
(* synchronized<T> and its locked views.  guards[t][g] is one guard object *)
(* of thread t: st is "none" (no object), "locking" (constructor inside    *)
(* lock()), "held" (constructed, mutex_ refers to the mutex), "unlocking"  *)
(* (inside unlock(), after the registration was removed) or "moved"        *)
(* (mutex_ is moved-from); kind is "mut" for guard<T>, "const" for         *)
(* guard<const T>.                                                         *)
(***************************************************************************)
Kinds == {"mut", "const"}
Alive == {"held", "moved"}

is_moved_from(t, g) == guards[t][g].st = "moved"

HeldSlots(t, kind) == {g \in Slots : guards[t][g] = [st |-> "held", kind |-> kind]}

\* a blindfold of the thread keeps a pointer to the guard: the guard is out of
\* use until the blindfold is gone
Blindfolded(t, g) == \E b \in Blinds : blindfolds[t][b].original_guard_ = g

\* guard<T>::lock calls mutex_->lock(), guard<const T>::lock calls mutex_->lock_shared()
guard_lock(t, kind, done, wait) ==
    IF kind = "mut"
    THEN register_unique_count(t, done, wait) /\ UNCHANGED shrd
    ELSE register_shared_count(t, done, wait) /\ UNCHANGED <<unique_owner_thread_, excl>>

\* guard<T>::unlock / guard<const T>::unlock up to the release of the internal mutex
guard_unlock(t, kind) ==
    IF kind = "mut"
    THEN unregister_unique_count(t) /\ UNCHANGED shrd
    ELSE unregister_shared_count(t) /\ UNCHANGED excl

\* guard(const synchronized&): the members are bound, then lock()
guard_from_synchronized(t, g, kind) ==
    /\ pc[t] = "idle"
    /\ guards[t][g].st = "none"
    /\ budget[t] > 0
    /\ acquire_internal_mutex
    /\ guard_lock(t, kind, "idle", "guard_wait")
    /\ guards' = [guards EXCEPT ![t][g] =
                     [st |-> IF pc'[t] = "idle" THEN "held" ELSE "locking", kind |-> kind]]
    /\ op' = [op EXCEPT ![t] = IF pc'[t] = "idle" THEN NoOp ELSE [NoOp EXCEPT !.slot = g]]
    /\ budget' = [budget EXCEPT ![t] = @ - 1]
    /\ ret' = [ret EXCEPT ![t] = "-"]
    /\ UNCHANGED <<internal_mutex_, aborted, protected_instance_, condition_variable_>>

\* the constructor was woken on mutex_free_condition_ inside lock()
guard_wakeup(t) ==
    /\ pc[t] = "guard_wait"
    /\ t \notin mutex_free_condition_
    /\ acquire_internal_mutex
    /\ guard_lock(t, guards[t][op[t].slot].kind, "idle", "guard_wait")
    /\ guards' = [guards EXCEPT ![t][op[t].slot].st =
                     IF pc'[t] = "idle" THEN "held" ELSE "locking"]
    /\ op' = [op EXCEPT ![t] = IF pc'[t] = "idle" THEN NoOp ELSE @]
    /\ UNCHANGED <<internal_mutex_, aborted, ret, protected_instance_, condition_variable_, budget>>

guard_move_constructor_copying(t, src, dst) ==
    /\ pc[t] = "idle"
    /\ guards[t][src].st \in Alive
    /\ ~Blindfolded(t, src)
    /\ guards[t][dst].st = "none"
    /\ guards' = [guards EXCEPT ![t][dst] = guards[t][src]]
    /\ UNCHANGED <<mutexVars, threadVars, aborted, protected_instance_, condition_variable_, op, budget>>

\* guard(guard&&): takes both references, the source becomes moved-from
guard_move_constructor(t, src, dst) ==
    /\ pc[t] = "idle"
    /\ guards[t][src].st \in Alive
    /\ ~Blindfolded(t, src)
    /\ guards[t][dst].st = "none"
    /\ guards' = [guards EXCEPT ![t][dst] = guards[t][src], ![t][src].st = "moved"]
    /\ UNCHANGED <<mutexVars, threadVars, aborted, protected_instance_, condition_variable_, op, budget>>

\* operator=(guard&&): self check, unlock(), then the references are taken
guard_move_assignment(t, src, dst) ==
    /\ pc[t] = "idle"
    /\ guards[t][src].st \in Alive
    /\ guards[t][dst].st \in Alive
    /\ guards[t][src].kind = guards[t][dst].kind
    /\ ~Blindfolded(t, src) /\ ~Blindfolded(t, dst)
    /\ IF src = dst
       THEN UNCHANGED vars
       ELSE IF is_moved_from(t, dst)
       THEN /\ guards' = [guards EXCEPT ![t][dst] = guards[t][src], ![t][src].st = "moved"]
            /\ UNCHANGED <<mutexVars, threadVars, aborted, protected_instance_,
                           condition_variable_, op, budget>>
       ELSE /\ acquire_internal_mutex
            /\ guard_unlock(t, guards[t][dst].kind)
            /\ guards' = [guards EXCEPT ![t][dst].st = "unlocking"]
            /\ pc' = [pc EXCEPT ![t] = "assign_notify"]
            /\ op' = [op EXCEPT ![t] = [NoOp EXCEPT !.slot = dst, !.src = src]]
            /\ UNCHANGED <<unique_owner_thread_, internal_mutex_, mutex_free_condition_, ret,
                           protected_instance_, condition_variable_, budget>>

\* the notification that ends unlock(), then the two move assignments of the members
assign_notify(t) ==
    /\ pc[t] = "assign_notify"
    /\ notify_mutex_free_condition(guards[t][op[t].slot].kind = "mut")
    /\ guards' = [guards EXCEPT ![t][op[t].slot] = guards[t][op[t].src],
                                ![t][op[t].src].st = "moved"]
    /\ pc' = [pc EXCEPT ![t] = "idle"]
    /\ op' = [op EXCEPT ![t] = NoOp]
    /\ UNCHANGED <<lock_count_, unique_owner_thread_, internal_mutex_, excl, shrd, ret, aborted,
                   protected_instance_, condition_variable_, budget>>

\* ~guard(): unlock(), which does nothing for a moved-from guard
guard_destructor(t, g) ==
    /\ pc[t] = "idle"
    /\ guards[t][g].st \in Alive
    /\ ~Blindfolded(t, g)
    /\ IF is_moved_from(t, g)
       THEN /\ guards' = [guards EXCEPT ![t][g] = NoGuard]
            /\ UNCHANGED <<mutexVars, threadVars, aborted, protected_instance_,
                           condition_variable_, op, budget>>
       ELSE /\ acquire_internal_mutex
            /\ guard_unlock(t, guards[t][g].kind)
            /\ guards' = [guards EXCEPT ![t][g].st = "unlocking"]
            /\ pc' = [pc EXCEPT ![t] = "destroy_notify"]
            /\ op' = [op EXCEPT ![t] = [NoOp EXCEPT !.slot = g]]
            /\ UNCHANGED <<unique_owner_thread_, internal_mutex_, mutex_free_condition_, ret,
                           protected_instance_, condition_variable_, budget>>

destroy_notify(t) ==
    /\ pc[t] = "destroy_notify"
    /\ notify_mutex_free_condition(guards[t][op[t].slot].kind = "mut")
    /\ guards' = [guards EXCEPT ![t][op[t].slot] = NoGuard]
    /\ pc' = [pc EXCEPT ![t] = "idle"]
    /\ op' = [op EXCEPT ![t] = NoOp]
    /\ UNCHANGED <<lock_count_, unique_owner_thread_, internal_mutex_, excl, shrd, ret, aborted,
                   protected_instance_, condition_variable_, budget>>

\* a write to the protected value through guard<T>::operator* / operator->
guard_write(t, g, v) ==
    /\ pc[t] = "idle"
    /\ guards[t][g] = [st |-> "held", kind |-> "mut"]
    /\ v # protected_instance_
    /\ protected_instance_' = v
    /\ UNCHANGED <<mutexVars, threadVars, aborted, guards, condition_variable_, op, budget>>

(***************************************************************************)
(* guard::blindfold.  blindfolds[t][b] is one blindfold object of thread   *)
(* t: st is "none" (no object), "alive", or "assigning" (the target of a   *)
(* move assignment that waits inside unblind_original_guard);              *)
(* original_guard_ is the slot of the guard it points to (NoSlot for       *)
(* nullptr); unlocked_guard_ is the guard member, whose st is "unlocked"   *)
(* (it refers to the mutex without a registration) or "moved".             *)
(***************************************************************************)
BlindfoldOf(t, b, g) ==
    [st |-> "alive", original_guard_ |-> g,
     unlocked_guard_ |-> [st |-> IF is_moved_from(t, g) THEN "moved" ELSE "unlocked",
                          kind |-> guards[t][g].kind]]

\* the state a blindfold is left in by a move out of it
blindfold_moved_from(bf) ==
    [st |-> "alive", original_guard_ |-> NoSlot,
     unlocked_guard_ |-> [st |-> "moved", kind |-> bf.unlocked_guard_.kind]]

\* blindfold(guard&): the pointer is kept, the guard is unlocked and moved
\* into unlocked_guard_
blindfold_constructor(t, b, g) ==
    /\ pc[t] = "idle"
    /\ blindfolds[t][b].st = "none"
    /\ guards[t][g].st \in Alive
    /\ ~Blindfolded(t, g)
    /\ IF is_moved_from(t, g)
       THEN /\ blindfolds' = [blindfolds EXCEPT ![t][b] = BlindfoldOf(t, b, g)]
            /\ UNCHANGED <<mutexVars, threadVars, aborted, syncVars>>
       ELSE /\ acquire_internal_mutex
            /\ guard_unlock(t, guards[t][g].kind)
            /\ guards' = [guards EXCEPT ![t][g].st = "unlocking"]
            /\ pc' = [pc EXCEPT ![t] = "blind_notify"]
            /\ op' = [op EXCEPT ![t] = [NoOp EXCEPT !.slot = g, !.src = b]]
            /\ UNCHANGED <<unique_owner_thread_, internal_mutex_, mutex_free_condition_, ret,
                           protected_instance_, condition_variable_, budget, blindfolds>>

\* the notification that ends unlock(), then the move of the guard into unlocked_guard_
blind_notify(t) ==
    /\ pc[t] = "blind_notify"
    /\ notify_mutex_free_condition(guards[t][op[t].slot].kind = "mut")
    /\ blindfolds' = [blindfolds EXCEPT ![t][op[t].src] = BlindfoldOf(t, op[t].src, op[t].slot)]
    /\ guards' = [guards EXCEPT ![t][op[t].slot].st = "moved"]
    /\ pc' = [pc EXCEPT ![t] = "idle"]
    /\ op' = [op EXCEPT ![t] = NoOp]
    /\ UNCHANGED <<lock_count_, unique_owner_thread_, internal_mutex_, excl, shrd, ret, aborted,
                   protected_instance_, condition_variable_, budget>>

blindfold_move_constructor_keeping(t, src, dst) ==
    /\ pc[t] = "idle"
    /\ blindfolds[t][src].st = "alive"
    /\ blindfolds[t][dst].st = "none"
    /\ blindfolds' = [blindfolds EXCEPT ![t][dst] = blindfolds[t][src],
                                        ![t][src].unlocked_guard_.st = "moved"]
    /\ UNCHANGED <<mutexVars, threadVars, aborted, syncVars>>

\* blindfold(blindfold&&): pointer and guard are taken, the pointer of the source is cleared
blindfold_move_constructor(t, src, dst) ==
    /\ pc[t] = "idle"
    /\ blindfolds[t][src].st = "alive"
    /\ blindfolds[t][dst].st = "none"
    /\ blindfolds' = [blindfolds EXCEPT ![t][dst] = blindfolds[t][src],
                                        ![t][src] = blindfold_moved_from(blindfolds[t][src])]
    /\ UNCHANGED <<mutexVars, threadVars, aborted, syncVars>>

\* unblind_original_guard of a blindfold that has a pointer: unlocked_guard_ is
\* move-assigned to the original guard, which is then locked.  after is the
\* value of blindfolds once the call has returned, pending its value while
\* lock() waits, other the blindfold that a waiting move assignment takes from.
unblind_original_guard(t, b, other, wait, after, pending) ==
    LET g == blindfolds[t][b].original_guard_
        u == blindfolds[t][b].unlocked_guard_
    IN  /\ is_moved_from(t, g)
        /\ IF u.st = "moved"
           THEN /\ blindfolds' = after
                /\ UNCHANGED <<mutexVars, threadVars, aborted, syncVars>>
           ELSE /\ acquire_internal_mutex
                /\ guard_lock(t, u.kind, "idle", wait)
                /\ guards' = [guards EXCEPT ![t][g] =
                                 [st |-> IF pc'[t] = "idle" THEN "held" ELSE "locking",
                                  kind |-> u.kind]]
                /\ op' = [op EXCEPT ![t] =
                             IF pc'[t] = "idle" THEN NoOp
                             ELSE [NoOp EXCEPT !.slot = g, !.src = other]]
                /\ blindfolds' = IF pc'[t] = "idle" THEN after ELSE pending
                /\ UNCHANGED <<internal_mutex_, ret, aborted, protected_instance_,
                               condition_variable_, budget>>

\* ~blindfold()
blindfold_destructor(t, b) ==
    /\ pc[t] = "idle"
    /\ blindfolds[t][b].st = "alive"
    /\ LET gone == [blindfolds EXCEPT ![t][b] = NoBlindfold]
       IN  IF blindfolds[t][b].original_guard_ = NoSlot
           THEN /\ blindfolds' = gone
                /\ UNCHANGED <<mutexVars, threadVars, aborted, syncVars>>
           ELSE unblind_original_guard(t, b, NoSlot, "guard_wait", gone, gone)

\* the members of the source are taken and its pointer is cleared
blindfold_take(t, src, dst) ==
    [blindfolds EXCEPT ![t][dst] = blindfolds[t][src],
                       ![t][src] = blindfold_moved_from(blindfolds[t][src])]

\* operator=(blindfold&&): self check, unblind_original_guard(), then the
\* members of the source are taken
blindfold_move_assignment(t, src, dst) ==
    /\ pc[t] = "idle"
    /\ blindfolds[t][src].st = "alive"
    /\ blindfolds[t][dst].st = "alive"
    /\ blindfolds[t][src].unlocked_guard_.kind = blindfolds[t][dst].unlocked_guard_.kind
    /\ IF src = dst
       THEN UNCHANGED vars
       ELSE IF blindfolds[t][dst].original_guard_ = NoSlot
       THEN /\ blindfolds' = blindfold_take(t, src, dst)
            /\ UNCHANGED <<mutexVars, threadVars, aborted, syncVars>>
       ELSE unblind_original_guard(t, dst, src, "blind_assign_wait",
                blindfold_take(t, src, dst),
                [blindfolds EXCEPT ![t][dst].st = "assigning",
                                   ![t][dst].unlocked_guard_.st = "moved"])

\* the move assignment was woken on mutex_free_condition_ inside lock()
blindfold_assign_wakeup(t) ==
    /\ pc[t] = "blind_assign_wait"
    /\ t \notin mutex_free_condition_
    /\ acquire_internal_mutex
    /\ guard_lock(t, guards[t][op[t].slot].kind, "idle", "blind_assign_wait")
    /\ guards' = [guards EXCEPT ![t][op[t].slot].st =
                     IF pc'[t] = "idle" THEN "held" ELSE "locking"]
    /\ op' = [op EXCEPT ![t] = IF pc'[t] = "idle" THEN NoOp ELSE @]
    /\ LET dst == CHOOSE b \in Blinds : blindfolds[t][b].st = "assigning"
           src == op[t].src
       IN  blindfolds' = IF pc'[t] = "idle" THEN blindfold_take(t, src, dst) ELSE blindfolds
    /\ UNCHANGED <<internal_mutex_, aborted, ret, protected_instance_, condition_variable_, budget>>

BlindfoldStep(t) ==
    \/ \E b \in Blinds, g \in Slots : blindfold_constructor(t, b, g)
    \/ blind_notify(t)
    \/ \E src, dst \in Blinds : blindfold_move_constructor(t, src, dst)
    \/ \E src, dst \in Blinds : blindfold_move_assignment(t, src, dst)
    \/ blindfold_assign_wakeup(t)
    \/ \E b \in Blinds : blindfold_destructor(t, b)


(***************************************************************************)
(* Specification of one synchronized<T> used through guards and blindfolds           *)
(***************************************************************************)
GuardStep(t) ==
    \/ \E g \in Slots, kind \in Kinds : guard_from_synchronized(t, g, kind)
    \/ guard_wakeup(t)
    \/ \E src, dst \in Slots : guard_move_constructor(t, src, dst)
    \/ \E src, dst \in Slots : guard_move_assignment(t, src, dst)
    \/ assign_notify(t)
    \/ \E g \in Slots : guard_destructor(t, g)
    \/ destroy_notify(t)
    \/ \E g \in Slots, v \in 0..MaxValue : guard_write(t, g, v)
    \/ spurious_wakeup(t) /\ UNCHANGED syncVars

NextGuard ==
    /\ ~aborted
    /\ \E t \in Clients : GuardStep(t)
    /\ UNCHANGED <<ndebug, borrowVars, blindfolds, sharedVars, legacyVars, ownerVars, trackedVars>>

SpecGuard == Init /\ [][NextGuard]_vars

(***************************************************************************)
(* Specification of one synchronized<T> whose guards are blindfolded       *)
(***************************************************************************)
NextBlindfold ==
    /\ ~aborted
    /\ \E t \in Clients :
          \/ /\ \/ \E g \in Slots, kind \in Kinds : guard_from_synchronized(t, g, kind)
                \/ guard_wakeup(t)
                \/ \E g \in Slots : guard_destructor(t, g)
                \/ destroy_notify(t)
             /\ UNCHANGED blindfolds
          \/ BlindfoldStep(t)
    /\ UNCHANGED <<ndebug, borrowVars, sharedVars, legacyVars, ownerVars, trackedVars>>

SpecBlindfold == Init /\ [][NextBlindfold]_vars

(***************************************************************************)
(* synchronized<T>::condition: wait with a guard, and notify.  The caller  *)
(* keeps the internal mutex from the entry of wait until the condition     *)
(* variable releases it to sleep, and again from its wake-up on.           *)
(***************************************************************************)
\* the criteria given to the condition; the model uses "the value is positive"
fulfillment_criteria_(v) == v > 0

Registered(t, kind) == IF kind = "mut" THEN excl[t] ELSE shrd[t]

WaitKind(t) == guards[t][op[t].slot].kind

\* wait(guard, maybe_timeout) up to the call of the condition variable:
\* the internal mutex is taken and the guard's registration is removed
condition_wait(t, g, timed) ==
    /\ pc[t] = "idle"
    /\ guards[t][g].st = "held"
    /\ budget[t] > 0
    /\ acquire_internal_mutex
    /\ internal_mutex_' = t
    /\ guard_unlock(t, guards[t][g].kind)
    /\ pc' = [pc EXCEPT ![t] = "cw_pred"]
    /\ op' = [op EXCEPT ![t] = [slot |-> g, src |-> NoSlot, timed |-> timed, final |-> FALSE,
                                met |-> FALSE, before |-> Registered(t, guards[t][g].kind)]]
    /\ budget' = [budget EXCEPT ![t] = @ - 1]
    /\ ret' = [ret EXCEPT ![t] = "-"]
    /\ UNCHANGED <<unique_owner_thread_, mutex_free_condition_, protected_instance_, guards,
                   condition_variable_>>

\* waiting_predicate, first statement: the registration, which sleeps on
\* mutex_free_condition_ (and gives up the internal mutex) while it is refused
waiting_predicate_register(t) ==
    /\ \/ pc[t] = "cw_pred" /\ internal_mutex_ = t
       \/ pc[t] = "cw_regwait" /\ t \notin mutex_free_condition_ /\ acquire_internal_mutex
    /\ guard_lock(t, WaitKind(t), "cw_eval", "cw_regwait")
    /\ internal_mutex_' = IF pc'[t] = "cw_eval" THEN t ELSE NoThread
    /\ UNCHANGED <<ret, aborted, syncVars>>

\* waiting_predicate, the rest: the criteria is evaluated on the value; when it
\* is not met the registration is removed and, if the mutex became free,
\* mutex_free_condition_ is notified.  op.final: this is the evaluation that
\* wait_for / wait_until make after the time ran out, the result is returned.
waiting_predicate_criteria(t) ==
    /\ pc[t] = "cw_eval"
    /\ IF fulfillment_criteria_(protected_instance_)
       THEN /\ op' = [op EXCEPT ![t].met = TRUE]
            /\ pc' = [pc EXCEPT ![t] = "cw_return"]
            /\ UNCHANGED <<lock_count_, mutex_free_condition_, excl, shrd, aborted>>
       ELSE /\ guard_unlock(t, WaitKind(t))
            /\ IF lock_count_' = 0
               THEN notify_mutex_free_condition(TRUE)
               ELSE UNCHANGED mutex_free_condition_
            /\ pc' = [pc EXCEPT ![t] = IF op[t].final THEN "cw_return" ELSE "cw_sleep"]
            /\ UNCHANGED op
    /\ UNCHANGED <<unique_owner_thread_, internal_mutex_, ret, protected_instance_, guards,
                   condition_variable_, budget>>

\* condition_variable_.wait: releases the internal mutex and blocks, atomically
condition_variable_sleep(t) ==
    /\ pc[t] = "cw_sleep"
    /\ internal_mutex_' = NoThread
    /\ condition_variable_' = condition_variable_ \cup {t}
    /\ pc' = [pc EXCEPT ![t] = "cw_sleeping"]
    /\ UNCHANGED <<lock_count_, unique_owner_thread_, mutex_free_condition_, excl, shrd, ret,
                   aborted, protected_instance_, guards, op, budget>>

\* the wait was ended by a notification or spuriously: the internal mutex is
\* taken again and the predicate is evaluated
condition_variable_wakeup(t) ==
    /\ pc[t] = "cw_sleeping"
    /\ t \notin condition_variable_
    /\ acquire_internal_mutex
    /\ internal_mutex_' = t
    /\ pc' = [pc EXCEPT ![t] = "cw_pred"]
    /\ UNCHANGED <<lock_count_, unique_owner_thread_, mutex_free_condition_, excl, shrd, ret,
                   aborted, syncVars>>

\* wait_for / wait_until: the time ran out, the predicate is evaluated once more
condition_variable_timeout(t) ==
    /\ pc[t] = "cw_sleeping"
    /\ op[t].timed
    /\ acquire_internal_mutex
    /\ internal_mutex_' = t
    /\ condition_variable_' = condition_variable_ \ {t}
    /\ op' = [op EXCEPT ![t].final = TRUE]
    /\ pc' = [pc EXCEPT ![t] = "cw_pred"]
    /\ UNCHANGED <<lock_count_, unique_owner_thread_, mutex_free_condition_, excl, shrd, ret,
                   aborted, protected_instance_, guards, budget>>

\* return of wait: the internal mutex is released with internal_mutex_lock
wait_return(t) ==
    /\ pc[t] = "cw_return"
    /\ internal_mutex_' = NoThread
    /\ ret' = [ret EXCEPT ![t] = IF op[t].met THEN "criteria_met" ELSE "timeout"]
    /\ pc' = [pc EXCEPT ![t] = "idle"]
    /\ op' = [op EXCEPT ![t] = NoOp]
    /\ UNCHANGED <<lock_count_, unique_owner_thread_, mutex_free_condition_, excl, shrd,
                   aborted, protected_instance_, guards, condition_variable_, budget>>

notify_one(t) ==
    /\ pc[t] = "idle"
    /\ \/ condition_variable_ = {} /\ UNCHANGED condition_variable_
       \/ \E w \in condition_variable_ : condition_variable_' = condition_variable_ \ {w}
    /\ UNCHANGED <<mutexVars, threadVars, aborted, protected_instance_, guards, op, budget>>

notify_all(t) ==
    /\ pc[t] = "idle"
    /\ condition_variable_' = {}
    /\ UNCHANGED <<mutexVars, threadVars, aborted, protected_instance_, guards, op, budget>>

\* std::condition_variable::wait may return without a notification
condition_spurious_wakeup(t) ==
    /\ t \in condition_variable_
    /\ condition_variable_' = condition_variable_ \ {t}
    /\ UNCHANGED <<mutexVars, threadVars, aborted, protected_instance_, guards, op, budget>>

(***************************************************************************)
(* Specification of one synchronized<T> with one condition, used through   *)
(* guards, wait and notify                                                 *)
(***************************************************************************)
ConditionStep(t) ==
    \/ \E g \in Slots, timed \in BOOLEAN : condition_wait(t, g, timed)
    \/ waiting_predicate_register(t)
    \/ waiting_predicate_criteria(t)
    \/ condition_variable_sleep(t)
    \/ condition_variable_wakeup(t)
    \/ condition_variable_timeout(t)
    \/ wait_return(t)
    \/ notify_one(t)
    \/ notify_all(t)
    \/ condition_spurious_wakeup(t)

NextSync ==
    /\ ~aborted
    /\ \E t \in Clients : GuardStep(t) \/ ConditionStep(t)
    /\ UNCHANGED <<ndebug, borrowVars, blindfolds, sharedVars, legacyVars, ownerVars, trackedVars>>

SpecSync == Init /\ [][NextSync]_vars

(***************************************************************************)
(* The same system with the scheduling the code relies on: a thread inside *)
(* a call goes on when it can, a timed wait runs out of time, and a guard  *)
(* is a scoped object that is destroyed                                    *)
(***************************************************************************)
Continue(t) ==
    \/ guard_wakeup(t)
    \/ assign_notify(t)
    \/ destroy_notify(t)
    \/ waiting_predicate_register(t)
    \/ waiting_predicate_criteria(t)
    \/ condition_variable_sleep(t)
    \/ condition_variable_wakeup(t)
    \/ condition_variable_timeout(t)
    \/ wait_return(t)

Fairness ==
    \A t \in Clients :
        /\ WF_vars(~aborted /\ Continue(t) /\ UNCHANGED <<ndebug, borrowVars, blindfolds, sharedVars, legacyVars, ownerVars, trackedVars>>)
        /\ WF_vars(/\ ~aborted
                   /\ UNCHANGED <<ndebug, borrowVars, blindfolds, sharedVars, legacyVars, ownerVars, trackedVars>>
                   /\ \E g \in Slots : ~is_moved_from(t, g) /\ guard_destructor(t, g))

SpecSyncFair == Init /\ [][NextSync]_vars /\ Fairness

(***************************************************************************)
(* Several synchronized<T> objects, each with its own mutex_ and an        *)
(* active_mutex_ that use_mutex_of redirects.  The critical sections of    *)
(* the mutex are single steps here; a thread whose lock() waits takes its  *)
(* step when the waiting predicate holds.                                  *)
(***************************************************************************)
lock_is_free_of(m) == mutexes[m].lock_count_ = 0

mutex_is_locked_unique_by_thread_of(m, t) ==
    mutexes[m].lock_count_ < 0 /\ mutexes[m].unique_owner_thread_ = t

mutex_is_locked_shared_of(m) == mutexes[m].lock_count_ > 0

\* shared_recursive_mutex::lock on mutex_ of object m, once its wait is over
mutex_lock(m, t) ==
    /\ lock_is_free_of(m) \/ mutex_is_locked_unique_by_thread_of(m, t)
    /\ mutexes' = [mutexes EXCEPT ![m] =
                      [lock_count_ |-> @.lock_count_ - 1, unique_owner_thread_ |-> t]]

\* shared_recursive_mutex::lock_shared, once its wait is over
mutex_lock_shared(m, t) ==
    /\ lock_is_free_of(m) \/ mutex_is_locked_shared_of(m)
    /\ mutexes' = [mutexes EXCEPT ![m].lock_count_ = @ + 1]

mutex_unlock(m, t) == mutexes' = [mutexes EXCEPT ![m].lock_count_ = @ + 1]

mutex_unlock_shared(m, t) == mutexes' = [mutexes EXCEPT ![m].lock_count_ = @ - 1]

ViewsOf(s) == {t \in Clients : views[t][s].st = "held"}

CallsOn(s) == {t \in Clients : call[t].target = s \/ call[t].other = s}

\* a.use_mutex_of(b): active_mutex_ of a is bound to mutex_ of b.  It is used
\* while a is set up: nobody has a view on a or is inside one of its operations.
use_mutex_of(a, b) ==
    /\ ViewsOf(a) = {} /\ CallsOn(a) = {}
    /\ active_mutex_[a] # b
    /\ active_mutex_' = [active_mutex_ EXCEPT ![a] = b]
    /\ UNCHANGED <<mutexes, instances, views, call>>

\* commence_mut(): guard<T>(const synchronized&) binds mutex_ to
\* other.active_mutex_ and locks it
commence_mut(t, s) ==
    /\ call[t] = NoCall
    /\ views[t][s] = NoView
    /\ mutex_lock(active_mutex_[s], t)
    /\ views' = [views EXCEPT ![t][s] =
                    [st |-> "held", kind |-> "mut", mutex_ |-> active_mutex_[s]]]
    /\ UNCHANGED <<active_mutex_, instances, call>>

\* commence(): guard<const T>(const synchronized&) binds mutex_ to other.mutex_
\* and locks it shared
commence(t, s) ==
    /\ call[t] = NoCall
    /\ views[t][s] = NoView
    /\ mutex_lock_shared(s, t)
    /\ views' = [views EXCEPT ![t][s] = [st |-> "held", kind |-> "const", mutex_ |-> s]]
    /\ UNCHANGED <<active_mutex_, instances, call>>

\* ~guard(): unlock() on the mutex the guard is bound to
view_destructor(t, s) ==
    /\ call[t] = NoCall
    /\ views[t][s].st = "held"
    /\ IF views[t][s].kind = "mut"
       THEN mutex_unlock(views[t][s].mutex_, t)
       ELSE mutex_unlock_shared(views[t][s].mutex_, t)
    /\ views' = [views EXCEPT ![t][s] = NoView]
    /\ UNCHANGED <<active_mutex_, instances, call>>

\* a write through guard<T>::operator*
view_write(t, s, v) ==
    /\ call[t] = NoCall
    /\ views[t][s].st = "held" /\ views[t][s].kind = "mut"
    /\ instances[s] # v
    /\ instances' = [instances EXCEPT ![s] = v]
    /\ UNCHANGED <<mutexes, active_mutex_, views, call>>

\* emplace(args) and operator=(const T&) / operator=(T&&): the temporary of
\* commence_mut() is locked ...
synchronized_assign_value(t, s, v) ==
    /\ call[t] = NoCall
    /\ mutex_lock(active_mutex_[s], t)
    /\ call' = [call EXCEPT ![t] =
                   [name |-> "assign_value", target |-> s, other |-> NoSync, value |-> v]]
    /\ UNCHANGED <<active_mutex_, instances, views>>

\* ... the value is assigned through it, and the temporary is destroyed
synchronized_assign_value_end(t) ==
    /\ call[t].name = "assign_value"
    /\ instances' = [instances EXCEPT ![call[t].target] = call[t].value]
    /\ mutex_unlock(active_mutex_[call[t].target], t)
    /\ call' = [call EXCEPT ![t] = NoCall]
    /\ UNCHANGED <<active_mutex_, views>>

\* synchronized(synchronized&& other): the temporary of other.commence_mut()
\* is locked ...
synchronized_move_constructor(t, other) ==
    /\ call[t] = NoCall
    /\ mutex_lock(active_mutex_[other], t)
    /\ call' = [call EXCEPT ![t] =
                   [name |-> "move_constructor", target |-> NoSync, other |-> other, value |-> 0]]
    /\ UNCHANGED <<active_mutex_, instances, views>>

\* ... the value is moved out, which leaves any value behind, and the
\* temporary is destroyed
synchronized_move_constructor_end(t) ==
    /\ call[t].name = "move_constructor"
    /\ \E v \in 0..MaxValue : instances' = [instances EXCEPT ![call[t].other] = v]
    /\ mutex_unlock(active_mutex_[call[t].other], t)
    /\ call' = [call EXCEPT ![t] = NoCall]
    /\ UNCHANGED <<active_mutex_, views>>

\* operator=(const synchronized& other): self check, then the value is
\* assigned; no mutex is locked
synchronized_copy_assignment(t, s, other) ==
    /\ call[t] = NoCall
    /\ instances' = IF s = other THEN instances
                    ELSE [instances EXCEPT ![s] = instances[other]]
    /\ UNCHANGED <<mutexes, active_mutex_, views, call>>

\* operator=(synchronized&& other): self check, then the value is moved,
\* which leaves any value in other; no mutex is locked
synchronized_move_assignment(t, s, other) ==
    /\ call[t] = NoCall
    /\ IF s = other
       THEN UNCHANGED instances
       ELSE \E v \in 0..MaxValue :
                instances' = [instances EXCEPT ![s] = instances[other], ![other] = v]
    /\ UNCHANGED <<mutexes, active_mutex_, views, call>>

NextShared ==
    /\ ~aborted
    /\ \/ \E a, b \in Syncs : use_mutex_of(a, b)
       \/ \E t \in Clients, s \in Syncs : commence_mut(t, s)
       \/ \E t \in Clients, s \in Syncs : commence(t, s)
       \/ \E t \in Clients, s \in Syncs : view_destructor(t, s)
       \/ \E t \in Clients, s \in Syncs, v \in 0..MaxValue : view_write(t, s, v)
       \/ \E t \in Clients, s \in Syncs, v \in 0..MaxValue : synchronized_assign_value(t, s, v)
       \/ \E t \in Clients : synchronized_assign_value_end(t)
       \/ \E t \in Clients, s \in Syncs : synchronized_move_constructor(t, s)
       \/ \E t \in Clients : synchronized_move_constructor_end(t)
       \/ \E t \in Clients, s, o \in Syncs : synchronized_copy_assignment(t, s, o)
       \/ \E t \in Clients, s, o \in Syncs : synchronized_move_assignment(t, s, o)
    /\ UNCHANGED <<mutexVars, threadVars, buildVars, syncVars, borrowVars, blindfolds,
                   legacyVars, ownerVars, trackedVars>>

SpecShared == Init /\ [][NextShared]_vars

(***************************************************************************)
(* Owners (var), views (ref) and the borrow managers.  A borrow state is   *)
(* the record of the views, the counters and the chains; the member        *)
(* functions of ref_base are operators from a borrow state to the next,    *)
(* the way the code composes them.  failed: an assert did not hold.        *)
(***************************************************************************)
\* std::numeric_limits<std::size_t>::max(), the value of a closed counter
SIZE_MAX == 0 - 1

BorrowState ==
    [refs |-> refs, counter_ |-> counter_, chain |-> ref_chain_root_, failed |-> FALSE]

is_managed(S, v) == S.refs[v].borrow_manager_ # NoManager

\* counted_borrow_manager
register_reference(S, o) == [S EXCEPT !.counter_[o] = @ + 1]

unregister_reference(S, o) ==
    [S EXCEPT !.counter_[o] = IF @ = 0 THEN SIZE_MAX ELSE @ - 1,
              !.failed = @ \/ S.counter_[o] = 0]

\* tracked_borrow_manager
register_ref(S, o, v) == [S EXCEPT !.chain[o] = <<v>> \o @]

get_previous_ptr_in_chain(S, o, v) ==
    IF \E i \in 1..Len(S.chain[o]) : S.chain[o][i] = v
    THEN CHOOSE i \in 1..Len(S.chain[o]) : S.chain[o][i] = v
    ELSE 0

unregister_ref(S, o, v) ==
    LET i == get_previous_ptr_in_chain(S, o, v) IN
    IF i = 0
    THEN [S EXCEPT !.failed = TRUE]
    ELSE [S EXCEPT !.chain[o] = SubSeq(@, 1, i - 1) \o SubSeq(@, i + 1, Len(@))]

\* ref_base::register_self / unregister_self of both managers
register_self(S, v) ==
    IF ~is_managed(S, v) THEN S
    ELSE IF strategy = "counted"
    THEN register_reference(S, S.refs[v].borrow_manager_)
    ELSE register_ref(S, S.refs[v].borrow_manager_, v)

unregister_self(S, v) ==
    IF ~is_managed(S, v) THEN S
    ELSE LET U == IF strategy = "counted"
                  THEN unregister_reference(S, S.refs[v].borrow_manager_)
                  ELSE unregister_ref(S, S.refs[v].borrow_manager_, v)
         IN [U EXCEPT !.refs[v].borrow_manager_ = NoManager]

set_borrow_manager(S, v, m) == [S EXCEPT !.refs[v] = [alive |-> TRUE, borrow_manager_ |-> m]]

\* ref_base(borrow_manager) and ref_base(const ref_base&)
ref_base_construct(S, v, m) == register_self(set_borrow_manager(S, v, m), v)

counted_ref_base_move_registering(S, src, dst) ==
    LET T == ref_base_construct(S, dst, S.refs[src].borrow_manager_)
    IN [T EXCEPT !.refs[src].borrow_manager_ = NoManager]

\* ref_base(ref_base&&): the counted manager hands the registration over, the
\* tracked manager registers the new view and unregisters the other
counted_ref_base_move(S, src, dst) ==
    LET T == set_borrow_manager(S, dst, S.refs[src].borrow_manager_)
    IN [T EXCEPT !.refs[src].borrow_manager_ = NoManager]

tracked_ref_base_move(S, src, dst) ==
    unregister_self(ref_base_construct(S, dst, S.refs[src].borrow_manager_), src)

\* ref_base::operator=(const ref_base&)
ref_base_copy_assign(S, src, dst) ==
    IF src = dst THEN S
    ELSE IF S.refs[dst].borrow_manager_ # S.refs[src].borrow_manager_
    THEN register_self(
             set_borrow_manager(unregister_self(S, dst), dst, S.refs[src].borrow_manager_), dst)
    ELSE S

ref_base_move_assign_keeping(S, src, dst) == ref_base_copy_assign(S, src, dst)

\* ref_base::operator=(ref_base&&)
ref_base_move_assign(S, src, dst) ==
    IF src = dst THEN S
    ELSE unregister_self(ref_base_copy_assign(S, src, dst), src)

\* ~ref_base()
ref_base_destroy(S, v) == [unregister_self(S, v) EXCEPT !.refs[v] = NoRef]

\* the borrow state S becomes the state; a failed assert ends a build with asserts
Commit(S) ==
    /\ refs' = S.refs
    /\ counter_' = S.counter_
    /\ ref_chain_root_' = S.chain
    /\ aborted' = (S.failed /\ ~ndebug)
    /\ UNCHANGED <<var_alive, panic_log, bad_cast>>

(***************************************************************************)
(* The operations on views and owners                                      *)
(***************************************************************************)
\* basic_var::borrow(): a view constructed from the owner's manager
borrow(o, v) ==
    /\ var_alive[o]
    /\ ~refs[v].alive
    /\ Commit(ref_base_construct(BorrowState, v, o))

ref_raw_constructor_borrowing(v) ==
    /\ ~refs[v].alive
    /\ var_alive[1]
    /\ Commit(ref_base_construct(BorrowState, v, 1))

\* basic_ref(T &instance): ref_base() leaves borrow_manager_ null and registers
\* nothing
ref_raw_constructor(v) ==
    /\ ~refs[v].alive
    /\ Commit(set_borrow_manager(BorrowState, v, NoManager))

ref_copy_constructor(src, dst) ==
    /\ refs[src].alive
    /\ ~refs[dst].alive
    /\ Commit(ref_base_construct(BorrowState, dst, refs[src].borrow_manager_))

ref_move_constructor(src, dst) ==
    /\ refs[src].alive
    /\ ~refs[dst].alive
    /\ IF strategy = "counted"
       THEN Commit(counted_ref_base_move(BorrowState, src, dst))
       ELSE Commit(tracked_ref_base_move(BorrowState, src, dst))

ref_copy_assignment(src, dst) ==
    /\ refs[src].alive
    /\ refs[dst].alive
    /\ Commit(ref_base_copy_assign(BorrowState, src, dst))

ref_move_assignment(src, dst) ==
    /\ refs[src].alive
    /\ refs[dst].alive
    /\ Commit(ref_base_move_assign(BorrowState, src, dst))

ref_destructor(v) ==
    /\ refs[v].alive
    /\ Commit(ref_base_destroy(BorrowState, v))

\* a cast whose behaviour is undefined: of a view without manager
\* (*borrow_manager() dereferences a null pointer, and *instance_ too if the
\* view was moved from), or a static_cast to a type the object does not have.
\* The build either goes on to construct the view or ends the process.
undefined_cast(src, dst) ==
    \/ Commit(ref_base_construct(BorrowState, dst, refs[src].borrow_manager_))
    \/ /\ aborted' = TRUE
       /\ UNCHANGED <<refs, counter_, ref_chain_root_, var_alive, panic_log, bad_cast>>

\* dynamic_cast<TOther &> throws std::bad_cast before the view is constructed
throw_bad_cast ==
    /\ bad_cast < MaxThrows
    /\ bad_cast' = bad_cast + 1
    /\ UNCHANGED <<refs, counter_, ref_chain_root_, var_alive, panic_log, aborted>>

ref_static_down_cast_moving(src, dst, has_type) ==
    /\ refs[src].alive
    /\ ~refs[dst].alive
    /\ Commit(counted_ref_base_move(BorrowState, src, dst))

\* static_down_cast<TOther>() of the view src, the result constructed as dst;
\* has_type: the object is a TOther
ref_static_down_cast(src, dst, has_type) ==
    /\ refs[src].alive
    /\ ~refs[dst].alive
    /\ IF is_managed(BorrowState, src) /\ has_type
       THEN Commit(ref_base_construct(BorrowState, dst, refs[src].borrow_manager_))
       ELSE undefined_cast(src, dst)

ref_dynamic_down_cast_registering_first(src, dst, has_type) ==
    /\ refs[src].alive
    /\ ~refs[dst].alive
    /\ IF has_type
       THEN Commit(ref_base_construct(BorrowState, dst, refs[src].borrow_manager_))
       ELSE LET S == register_reference(BorrowState, refs[src].borrow_manager_)
            IN  /\ is_managed(BorrowState, src)
                /\ strategy = "counted"
                /\ bad_cast < MaxThrows
                /\ bad_cast' = bad_cast + 1
                /\ counter_' = S.counter_
                /\ UNCHANGED <<refs, ref_chain_root_, var_alive, panic_log, aborted>>

\* dynamic_down_cast<TOther>() of the view src, the result constructed as dst;
\* has_type: the object is a TOther
ref_dynamic_down_cast(src, dst, has_type) ==
    /\ refs[src].alive
    /\ ~refs[dst].alive
    /\ IF ~is_managed(BorrowState, src)
       THEN IF has_type THEN undefined_cast(src, dst)
            ELSE throw_bad_cast \/ undefined_cast(src, dst)
       ELSE IF has_type
       THEN Commit(ref_base_construct(BorrowState, dst, refs[src].borrow_manager_))
       ELSE throw_bad_cast

\* counted: the counter is closed if it is zero, else the panic function is
\* called once with the count and the process is aborted
counted_verify_dangling_references(o) ==
    IF counter_[o] = 0
    THEN /\ counter_' = [counter_ EXCEPT ![o] = SIZE_MAX]
         /\ UNCHANGED <<panic_log, aborted>>
    ELSE /\ panic_log' = Append(panic_log, [var |-> o, arg |-> counter_[o]])
         /\ aborted' = TRUE
         /\ UNCHANGED counter_

tracked_verify_dangling_references_head_only(o) ==
    IF ref_chain_root_[o] = <<>>
    THEN UNCHANGED <<panic_log, aborted, counter_>>
    ELSE /\ panic_log' = IF dangling_reference_panic
                         THEN Append(panic_log, [var |-> o, arg |-> 0,
                                                 ref |-> Head(ref_chain_root_[o])])
                         ELSE panic_log
         /\ aborted' = TRUE
         /\ UNCHANGED counter_

tracked_verify_dangling_references_reversed(o) ==
    IF ref_chain_root_[o] = <<>>
    THEN UNCHANGED <<panic_log, aborted, counter_>>
    ELSE /\ panic_log' = IF dangling_reference_panic
                         THEN panic_log \o [i \in 1..Len(ref_chain_root_[o]) |->
                                 [var |-> o, arg |-> i - 1,
                                  ref |-> ref_chain_root_[o][Len(ref_chain_root_[o]) + 1 - i]]]
                         ELSE panic_log
         /\ aborted' = TRUE
         /\ UNCHANGED counter_

\* tracked: for every link of the chain the hook is called, if it holds a
\* callable, with the index of the link and the stacktrace_ of the link (ref:
\* the view whose registration captured it); var stands for the type, the
\* instance and the destruction stack, which are the same for every call of
\* one verification; then the process is aborted
tracked_verify_dangling_references(o) ==
    IF ref_chain_root_[o] = <<>>
    THEN UNCHANGED <<panic_log, aborted, counter_>>
    ELSE /\ panic_log' = IF dangling_reference_panic
                         THEN panic_log \o [i \in 1..Len(ref_chain_root_[o]) |->
                                 [var |-> o, arg |-> i - 1, ref |-> ref_chain_root_[o][i]]]
                         ELSE panic_log
         /\ aborted' = TRUE
         /\ UNCHANGED counter_

\* ~basic_var(): the dangling references are verified before the value is destroyed
var_destructor(o) ==
    /\ var_alive[o]
    /\ var_alive' = [var_alive EXCEPT ![o] = FALSE]
    /\ IF strategy = "counted"
       THEN counted_verify_dangling_references(o)
       ELSE tracked_verify_dangling_references(o)
    /\ UNCHANGED <<refs, ref_chain_root_, bad_cast>>

(***************************************************************************)
(* Specification of NumVars owners and NumRefs views under either manager, *)
(* with or without a hook installed                                        *)
(***************************************************************************)
InitBorrow ==
    /\ MutexInit
    /\ ThreadInit
    /\ SyncInit
    /\ SharedInit
    /\ LegacyInit
    /\ TrackedInit
    /\ panic_action_ = "default"
    /\ OwnerInit
    /\ BorrowInit
    /\ strategy \in {"counted", "tracked"}
    /\ dangling_reference_panic \in BOOLEAN
    /\ aborted = FALSE
    /\ ndebug \in BOOLEAN

NextBorrow ==
    /\ ~aborted
    /\ \/ \E o \in Owners, v \in Refs : borrow(o, v)
       \/ \E v \in Refs : ref_raw_constructor(v)
       \/ \E src, dst \in Refs : ref_copy_constructor(src, dst)
       \/ \E src, dst \in Refs : ref_move_constructor(src, dst)
       \/ \E src, dst \in Refs : ref_copy_assignment(src, dst)
       \/ \E src, dst \in Refs : ref_move_assignment(src, dst)
       \/ \E v \in Refs : ref_destructor(v)
       \/ \E src, dst \in Refs, has_type \in BOOLEAN : ref_static_down_cast(src, dst, has_type)
       \/ \E src, dst \in Refs, has_type \in BOOLEAN : ref_dynamic_down_cast(src, dst, has_type)
       \/ \E o \in Owners : var_destructor(o)
    /\ UNCHANGED <<mutexVars, threadVars, syncVars, ndebug, strategy, dangling_reference_panic,
                   blindfolds, sharedVars, legacyVars, ownerVars, trackedVars>>

SpecBorrow == InitBorrow /\ [][NextBorrow]_vars

(***************************************************************************)
(* The counted_ref family: var<T> with a borrow_counter, ref<T> derived    *)
(* from counted_ref, and global_panic_handler.  counter_[o] is the counter *)
(* of the borrow_counter of owner o, refs[v].borrow_manager_ the           *)
(* borrow_counter_ pointer of view v.  panic_action_ is "default" (print   *)
(* and std::abort), "returning" (an installed callable that returns) or    *)
(* "empty" (an empty std::function).                                       *)
(***************************************************************************)
CountedRefState == [refs |-> refs, counter_ |-> counter_, triggered |-> <<>>]

\* borrow_counter::allocate
allocate(S, o) == [S EXCEPT !.counter_[o] = @ + 1]

\* borrow_counter::release: assert_that triggers the panic when the count was zero
release(S, o) ==
    [S EXCEPT !.counter_[o] = IF @ = 0 THEN SIZE_MAX ELSE @ - 1,
              !.triggered = IF S.counter_[o] = 0
                            THEN Append(@, [var |-> o, arg |-> SIZE_MAX]) ELSE @]

register_at_counter(S, v) ==
    IF ~is_managed(S, v) THEN S ELSE allocate(S, S.refs[v].borrow_manager_)

unregister_at_counter(S, v) ==
    IF panic_triggered_ \/ ~is_managed(S, v) THEN S
    ELSE [release(S, S.refs[v].borrow_manager_) EXCEPT !.refs[v].borrow_manager_ = NoManager]

\* panic_handler::trigger_panic for every panic S has gathered: the flag is
\* set, and the action is called if it holds a callable; the default action
\* aborts the process
trigger_panic(S) ==
    /\ panic_triggered_' = (panic_triggered_ \/ S.triggered # <<>>)
    /\ panic_log' = IF panic_action_ = "empty" THEN panic_log ELSE panic_log \o S.triggered
    /\ aborted' = (S.triggered # <<>> /\ panic_action_ = "default")

CountedRefCommit(S) ==
    /\ refs' = S.refs
    /\ counter_' = S.counter_
    /\ trigger_panic(S)

\* the counter of a view can be reached: the view is unmanaged or its owner exists
CounterExists(v) ==
    IF refs[v].borrow_manager_ = NoManager THEN TRUE ELSE var_alive[refs[v].borrow_manager_]

\* one more registration with the owner of view v stays within the counts the
\* model follows; without a panic no count exceeds the number of views
CanCount(v) ==
    IF ~panic_triggered_ \/ refs[v].borrow_manager_ = NoManager THEN TRUE
    ELSE counter_[refs[v].borrow_manager_] < NumRefs

Assigning(v) == v \in {assign.src, assign.dst}

\* var::borrow(): ref(T&, borrow_counter&)
counted_ref_borrow(o, v) ==
    /\ var_alive[o]
    /\ (~panic_triggered_) \/ (counter_[o] < NumRefs)
    /\ ~refs[v].alive
    /\ CountedRefCommit(register_at_counter(set_borrow_manager(CountedRefState, v, o), v))
    /\ UNCHANGED <<var_alive, assign>>

\* ref(const ref&): counted_ref(const counted_ref&)
counted_ref_copy_constructor(src, dst) ==
    /\ refs[src].alive /\ CounterExists(src) /\ CanCount(src)
    /\ ~refs[dst].alive
    /\ CountedRefCommit(register_at_counter(
           set_borrow_manager(CountedRefState, dst, refs[src].borrow_manager_), dst))
    /\ UNCHANGED <<var_alive, assign>>

\* ref(ref&&): counted_ref(counted_ref&&)
counted_ref_move_constructor(src, dst) ==
    /\ refs[src].alive /\ ~Assigning(src)
    /\ ~refs[dst].alive
    /\ CountedRefCommit([set_borrow_manager(CountedRefState, dst, refs[src].borrow_manager_)
                            EXCEPT !.refs[src].borrow_manager_ = NoManager])
    /\ UNCHANGED <<var_alive, assign>>

\* ref::operator=(const ref&): self check, then counted_ref::operator=, which
\* starts with unregister_at_counter() ...
counted_ref_copy_assignment(src, dst) ==
    /\ assign = NoAssign
    /\ refs[src].alive /\ CounterExists(src) /\ CanCount(src)
    /\ refs[dst].alive /\ CounterExists(dst)
    /\ IF src = dst
       THEN UNCHANGED <<refs, counter_, panic_triggered_, panic_log, aborted, assign>>
       ELSE /\ CountedRefCommit(unregister_at_counter(CountedRefState, dst))
            /\ assign' = [dst |-> dst, src |-> src, owner |-> refs[dst].borrow_manager_,
                          before |-> IF refs[dst].borrow_manager_ = NoManager THEN 0
                                     ELSE counter_[refs[dst].borrow_manager_]]
    /\ UNCHANGED var_alive

\* ... and goes on to take the counter of the other view and to register_at_counter()
counted_ref_copy_assignment_end ==
    /\ assign # NoAssign
    /\ CounterExists(assign.src)
    /\ CountedRefCommit(register_at_counter(
           set_borrow_manager(CountedRefState, assign.dst, refs[assign.src].borrow_manager_),
           assign.dst))
    /\ assign' = NoAssign
    /\ UNCHANGED var_alive

\* ref::operator=(ref&&): self check, then counted_ref::operator=(counted_ref&&)
counted_ref_move_assignment(src, dst) ==
    /\ refs[src].alive /\ ~Assigning(src)
    /\ refs[dst].alive /\ ~Assigning(dst) /\ CounterExists(dst)
    /\ IF src = dst
       THEN UNCHANGED <<refs, counter_, panic_triggered_, panic_log, aborted>>
       ELSE LET U == unregister_at_counter(CountedRefState, dst)
            IN  CountedRefCommit([U EXCEPT !.refs[dst].borrow_manager_ =
                                               refs[src].borrow_manager_,
                                           !.refs[src].borrow_manager_ = NoManager])
    /\ UNCHANGED <<var_alive, assign>>

\* ~ref(): ~counted_ref()
counted_ref_destructor(v) ==
    /\ refs[v].alive /\ ~Assigning(v)
    /\ panic_triggered_ \/ CounterExists(v)
    /\ CountedRefCommit([unregister_at_counter(CountedRefState, v) EXCEPT !.refs[v] = NoRef])
    /\ UNCHANGED <<var_alive, assign>>

\* borrow_counter::close_counting
close_counting(S, o) ==
    IF S.counter_[o] = 0
    THEN [S EXCEPT !.counter_[o] = SIZE_MAX]
    ELSE [S EXCEPT !.triggered = Append(@, [var |-> o, arg |-> S.counter_[o]])]

\* var::~var(): the counting is closed or the panic is triggered; when
\* trigger_panic returns, the destructor returns and instance_ is destroyed
counted_ref_var_destructor(o) ==
    /\ var_alive[o]
    /\ CountedRefCommit(close_counting(CountedRefState, o))
    /\ var_alive' = [var_alive EXCEPT ![o] = aborted']
    /\ UNCHANGED assign

(***************************************************************************)
(* Specification of NumVars var<T> and NumRefs ref<T> of the counted_ref   *)
(* family under each panic action                                          *)
(***************************************************************************)
InitCountedRef ==
    /\ MutexInit
    /\ ThreadInit
    /\ SyncInit
    /\ SharedInit
    /\ LegacyInit
    /\ TrackedInit
    /\ OwnerInit
    /\ BorrowInit
    /\ panic_action_ \in {"default", "returning", "empty"}
    /\ strategy = "counted"
    /\ dangling_reference_panic = FALSE
    /\ aborted = FALSE
    /\ ndebug \in BOOLEAN

NextCountedRef ==
    /\ ~aborted
    /\ \/ \E o \in Owners, v \in Refs : counted_ref_borrow(o, v)
       \/ \E src, dst \in Refs : counted_ref_copy_constructor(src, dst)
       \/ \E src, dst \in Refs : counted_ref_move_constructor(src, dst)
       \/ \E src, dst \in Refs : counted_ref_copy_assignment(src, dst)
       \/ counted_ref_copy_assignment_end
       \/ \E src, dst \in Refs : counted_ref_move_assignment(src, dst)
       \/ \E v \in Refs : counted_ref_destructor(v)
       \/ \E o \in Owners : counted_ref_var_destructor(o)
    /\ UNCHANGED <<mutexVars, threadVars, syncVars, ndebug, strategy, dangling_reference_panic,
                   bad_cast,
                   ref_chain_root_, blindfolds, sharedVars, panic_action_, ownerVars, trackedVars>>

SpecCountedRef == InitCountedRef /\ [][NextCountedRef]_vars

(***************************************************************************)
(* basic_var with its hooks and basic_enable_ref_from_this.  var_pc[o] is  *)
(* "none" (no owner object), "configure" (instance_ is constructed),       *)
(* "post" (the back-pointer is installed), "alive" (the constructor has    *)
(* returned) or "verify" (the destructor has called the pre-destructor).   *)
(* instance_[o] is the value with the manager_ back-pointer of its         *)
(* basic_enable_ref_from_this base and the view of itself the object holds *)
(* (self_view); origin, source and released record how the owner was       *)
(* constructed and whether the pre-destructor released the self-view.  The *)
(* object type mints its self-view in post_constructor and does not copy   *)
(* it with its value.                                                      *)
(***************************************************************************)
TempRef == NumRefs + 1

\* the temporary view of other.borrow() that lives for one expression
TempBorrow(S, other) ==
    IF strategy = "counted"
    THEN unregister_reference(register_reference(S, other), other)
    ELSE unregister_ref(register_ref(S, other, TempRef), other, TempRef)

\* a new borrow manager for owner o
NewManager(S, o) == [S EXCEPT !.counter_[o] = 0, !.chain[o] = <<>>]

SetBorrow(S) ==
    /\ refs' = S.refs
    /\ counter_' = S.counter_
    /\ ref_chain_root_' = S.chain
    /\ aborted' = (S.failed /\ ~ndebug)

SelfViews == {instance_[o].self_view : o \in Owners} \ {NoRefSlot}

\* basic_var(), basic_var(in_place, args), basic_var(const T&), basic_var(T&&),
\* up to the construction of instance_
var_constructor(o, v) ==
    /\ var_pc[o] = "none"
    /\ SetBorrow(NewManager(BorrowState, o))
    /\ instance_' = [instance_ EXCEPT ![o] = FreshInstance(v)]
    /\ var_alive' = [var_alive EXCEPT ![o] = TRUE]
    /\ var_pc' = [var_pc EXCEPT ![o] = "configure"]
    /\ UNCHANGED panic_log

var_copy_constructor_with_tracking(o, other) ==
    /\ var_pc[o] = "none"
    /\ var_pc[other] = "alive"
    /\ SetBorrow([BorrowState EXCEPT !.counter_[o] = counter_[other],
                                     !.chain[o] = ref_chain_root_[other]])
    /\ instance_' = [instance_ EXCEPT ![o] =
                        [FreshInstance(instance_[other].value)
                            EXCEPT !.origin = "copy", !.source = other]]
    /\ var_alive' = [var_alive EXCEPT ![o] = TRUE]
    /\ var_pc' = [var_pc EXCEPT ![o] = "configure"]
    /\ UNCHANGED panic_log

\* basic_var(const basic_var& other): instance_ is copy-constructed from the
\* value of other, which is borrowed meanwhile; the copy constructor of
\* basic_enable_ref_from_this leaves manager_ null
var_copy_constructor(o, other) ==
    /\ var_pc[o] = "none"
    /\ var_pc[other] = "alive"
    /\ SetBorrow(NewManager(TempBorrow(BorrowState, other), o))
    /\ instance_' = [instance_ EXCEPT ![o] =
                        [FreshInstance(instance_[other].value)
                            EXCEPT !.origin = "copy", !.source = other]]
    /\ var_alive' = [var_alive EXCEPT ![o] = TRUE]
    /\ var_pc' = [var_pc EXCEPT ![o] = "configure"]
    /\ UNCHANGED panic_log

var_move_constructor_carrying(o, other) ==
    /\ var_pc[o] = "none"
    /\ var_pc[other] = "alive"
    /\ SetBorrow([BorrowState EXCEPT
                     !.counter_[o] = counter_[other], !.counter_[other] = 0,
                     !.chain[o] = ref_chain_root_[other], !.chain[other] = <<>>,
                     !.refs = [v \in Refs |->
                                  IF refs[v].borrow_manager_ = other
                                  THEN [refs[v] EXCEPT !.borrow_manager_ = o]
                                  ELSE refs[v]]])
    /\ instance_' = [instance_ EXCEPT
                        ![o] = [FreshInstance(instance_[other].value)
                                   EXCEPT !.origin = "move", !.source = other],
                        ![other].moved = TRUE]
    /\ var_alive' = [var_alive EXCEPT ![o] = TRUE]
    /\ var_pc' = [var_pc EXCEPT ![o] = "configure"]
    /\ UNCHANGED panic_log

\* basic_var(basic_var&& other): instance_ is move-constructed from the value
\* of other, which is left moved-from
var_move_constructor(o, other) ==
    /\ var_pc[o] = "none"
    /\ var_pc[other] = "alive"
    /\ SetBorrow(NewManager(TempBorrow(BorrowState, other), o))
    /\ instance_' = [instance_ EXCEPT
                        ![o] = [FreshInstance(instance_[other].value)
                                   EXCEPT !.origin = "move", !.source = other],
                        ![other].moved = TRUE]
    /\ var_alive' = [var_alive EXCEPT ![o] = TRUE]
    /\ var_pc' = [var_pc EXCEPT ![o] = "configure"]
    /\ UNCHANGED panic_log

configure_enable_ref_from_this_skipped(o) ==
    /\ var_pc[o] = "configure"
    /\ var_pc' = [var_pc EXCEPT ![o] = "post"]
    /\ UNCHANGED <<borrowVars, aborted, instance_>>

\* configure_enable_ref_from_this(): instance_.smart_variable(this)
configure_enable_ref_from_this(o) ==
    /\ var_pc[o] = "configure"
    /\ instance_' = [instance_ EXCEPT ![o].manager_ = o]
    /\ var_pc' = [var_pc EXCEPT ![o] = "post"]
    /\ UNCHANGED <<borrowVars, aborted>>

\* borrow_from_this(): assert(manager_), then a view of *manager_.  Without
\* the assert a null manager_ is dereferenced: the process crashes or the
\* view is registered nowhere.
borrow_from_this(S, o, v) ==
    IF instance_[o].manager_ # NoManager
    THEN ref_base_construct(S, v, instance_[o].manager_)
    ELSE [set_borrow_manager(S, v, NoManager) EXCEPT !.failed = TRUE]

\* call_post_constructor(): the hook of the object type runs; it mints a
\* view of itself (mint) or does nothing
call_post_constructor(o, v, mint) ==
    /\ var_pc[o] = "post"
    /\ IF mint
       THEN /\ ~refs[v].alive
            /\ \E crash \in BOOLEAN :
                  LET S == borrow_from_this(BorrowState, o, v)
                  IN  /\ refs' = S.refs
                      /\ counter_' = S.counter_
                      /\ ref_chain_root_' = S.chain
                      /\ aborted' = (S.failed /\ (~ndebug \/ crash))
            /\ instance_' = [instance_ EXCEPT ![o].self_view = v]
       ELSE UNCHANGED <<refs, counter_, ref_chain_root_, aborted, instance_>>
    /\ var_pc' = [var_pc EXCEPT ![o] = "alive"]
    /\ UNCHANGED <<var_alive, panic_log>>

\* a member function of the object hands out a view of borrow_from_this()
var_borrow_from_this(o, v) ==
    /\ var_pc[o] = "alive"
    /\ ~refs[v].alive
    /\ Commit(borrow_from_this(BorrowState, o, v))
    /\ UNCHANGED ownerVars

var_copy_assignment_with_manager(dst, src) ==
    /\ var_pc[dst] = "alive"
    /\ var_pc[src] = "alive"
    /\ dst # src
    /\ Commit(TempBorrow(BorrowState, src))
    /\ instance_' = [instance_ EXCEPT ![dst].value = instance_[src].value,
                                      ![dst].manager_ = instance_[src].manager_,
                                      ![dst].moved = instance_[src].moved]
    /\ UNCHANGED var_pc

\* operator=(const basic_var& other): self check, then instance_ is assigned
\* from the value of other, which is borrowed meanwhile; operator= of
\* basic_enable_ref_from_this keeps manager_
var_copy_assignment(dst, src) ==
    /\ var_pc[dst] = "alive"
    /\ var_pc[src] = "alive"
    /\ IF dst = src
       THEN UNCHANGED <<refs, counter_, ref_chain_root_, aborted, var_alive, panic_log,
                        instance_>>
       ELSE /\ Commit(TempBorrow(BorrowState, src))
            /\ instance_' = [instance_ EXCEPT ![dst].value = instance_[src].value,
                                              ![dst].moved = instance_[src].moved]
    /\ UNCHANGED var_pc

\* operator=(basic_var&& other): as the copy assignment, and the value of
\* other is left moved-from
var_move_assignment(dst, src) ==
    /\ var_pc[dst] = "alive"
    /\ var_pc[src] = "alive"
    /\ IF dst = src
       THEN UNCHANGED <<refs, counter_, ref_chain_root_, aborted, var_alive, panic_log,
                        instance_>>
       ELSE /\ Commit(TempBorrow(BorrowState, src))
            /\ instance_' = [instance_ EXCEPT ![dst].value = instance_[src].value,
                                              ![dst].moved = instance_[src].moved,
                                              ![src].moved = TRUE]
    /\ UNCHANGED var_pc

\* the dangling check of ~basic_var(), which ends the owner
verify_dangling_references(o) ==
    /\ var_destructor(o)
    /\ var_pc' = [var_pc EXCEPT ![o] = IF aborted' THEN @ ELSE "none"]
    /\ instance_' = IF aborted' THEN instance_
                    ELSE [instance_ EXCEPT ![o] =
                             [FreshInstance(0) EXCEPT !.released = instance_[o].released]]

call_pre_destructor_after_verify(o, releases) ==
    /\ var_pc[o] = "alive"
    /\ verify_dangling_references(o)

\* ~basic_var() up to the dangling check: call_pre_destructor(), where the
\* hook of the object type releases the view of itself (releases) or not
call_pre_destructor(o, releases) ==
    /\ var_pc[o] = "alive"
    /\ IF releases /\ instance_[o].self_view # NoRefSlot
       THEN /\ Commit(ref_base_destroy(BorrowState, instance_[o].self_view))
            /\ instance_' = [instance_ EXCEPT ![o].self_view = NoRefSlot,
                                              ![o].released = TRUE]
       ELSE UNCHANGED <<refs, counter_, ref_chain_root_, aborted, var_alive, panic_log,
                        instance_>>
    /\ var_pc' = [var_pc EXCEPT ![o] = "verify"]

\* ~basic_var() after the pre-destructor
var_destructor_end(o) ==
    /\ var_pc[o] = "verify"
    /\ verify_dangling_references(o)

(***************************************************************************)
(* Specification of NumVars owners that are constructed, copied, moved,    *)
(* assigned and destroyed, with views on them, under either manager        *)
(***************************************************************************)
InitVar ==
    /\ MutexInit
    /\ ThreadInit
    /\ SyncInit
    /\ SharedInit
    /\ LegacyInit
    /\ TrackedInit
    /\ panic_action_ = "default"
    /\ instance_ = [o \in Owners |-> FreshInstance(0)]
    /\ var_pc = [o \in Owners |-> "none"]
    /\ var_alive = [o \in Owners |-> FALSE]
    /\ counter_ = [o \in Owners |-> 0]
    /\ ref_chain_root_ = [o \in Owners |-> <<>>]
    /\ refs = [v \in Refs |-> NoRef]
    /\ panic_log = <<>>
    /\ bad_cast = 0
    /\ strategy \in {"counted", "tracked"}
    /\ dangling_reference_panic \in BOOLEAN
    /\ aborted = FALSE
    /\ ndebug \in BOOLEAN

NextVar ==
    /\ ~aborted
    /\ \/ \E o \in Owners, v \in 0..MaxValue : var_constructor(o, v)
       \/ \E o, other \in Owners : var_copy_constructor(o, other)
       \/ \E o, other \in Owners : var_move_constructor(o, other)
       \/ \E o \in Owners : configure_enable_ref_from_this(o)
       \/ \E o \in Owners, v \in Refs, mint \in BOOLEAN : call_post_constructor(o, v, mint)
       \/ \E o \in Owners, v \in Refs : var_borrow_from_this(o, v)
       \/ \E dst, src \in Owners : var_copy_assignment(dst, src)
       \/ \E dst, src \in Owners : var_move_assignment(dst, src)
       \/ \E o \in Owners, releases \in BOOLEAN : call_pre_destructor(o, releases)
       \/ \E o \in Owners : var_destructor_end(o)
       \/ \E o \in Owners, v \in Refs :
             var_pc[o] = "alive" /\ borrow(o, v) /\ UNCHANGED ownerVars
       \/ \E src, dst \in Refs : ref_copy_constructor(src, dst) /\ UNCHANGED ownerVars
       \/ \E v \in Refs \ SelfViews : ref_destructor(v) /\ UNCHANGED ownerVars
    /\ UNCHANGED <<mutexVars, threadVars, syncVars, ndebug, strategy, dangling_reference_panic,
                   bad_cast,
                   blindfolds, sharedVars, legacyVars, trackedVars>>

SpecVar == InitVar /\ [][NextVar]_vars

(***************************************************************************)
(* basic_var as basic_var.ipp defines it: the constructors call            *)
(* call_post_constructor() themselves, the constructors from an owner or a *)
(* view delegate to a constructor from a value and call it in their own    *)
(* body too, and emplace() replaces the value in place.  var_pc[o] is here *)
(* "none", "post" (the constructor from a value has constructed            *)
(* instance_), "post_again" (control is back in the body of the delegating *)
(* constructor), "alive", "destroy" (emplace has called the                *)
(* pre-destructor), "emplaced" (emplace has constructed the new value) or  *)
(* "verify".  The hook is handed a view of the owner and keeps a copy of   *)
(* it in the object (mint) or not.                                         *)
(***************************************************************************)
ConstructInstance(o, v, how, from) ==
    /\ instance_' = [instance_ EXCEPT ![o] =
                        [FreshInstance(v) EXCEPT !.origin = how, !.source = from]]
    /\ var_alive' = [var_alive EXCEPT ![o] = TRUE]
    /\ var_pc' = [var_pc EXCEPT ![o] = "post"]
    /\ UNCHANGED <<panic_log, bad_cast>>

\* basic_var(), basic_var(in_place, args...), basic_var(const T&), basic_var(T&&)
basic_var_from_value(o, v) ==
    /\ var_pc[o] = "none"
    /\ SetBorrow(NewManager(BorrowState, o))
    /\ ConstructInstance(o, v, "value", NoManager)

\* basic_var(const basic_var& other) : basic_var(*other.borrow())
basic_var_copy(o, other) ==
    /\ var_pc[o] = "none"
    /\ var_pc[other] = "alive"
    /\ SetBorrow(NewManager(TempBorrow(BorrowState, other), o))
    /\ ConstructInstance(o, instance_[other].value, "copy", other)

\* basic_var(const basic_ref& other) : basic_var(*other)
basic_var_from_ref(o, r) ==
    /\ var_pc[o] = "none"
    /\ refs[r].alive
    /\ refs[r].borrow_manager_ \in Owners
    /\ var_pc[refs[r].borrow_manager_] = "alive"
    /\ SetBorrow(NewManager(BorrowState, o))
    /\ ConstructInstance(o, instance_[refs[r].borrow_manager_].value, "view", refs[r].borrow_manager_)

\* basic_var(basic_var&& other) : basic_var(std::move(*other.borrow()))
basic_var_move(o, other) ==
    /\ var_pc[o] = "none"
    /\ var_pc[other] = "alive"
    /\ SetBorrow(NewManager(TempBorrow(BorrowState, other), o))
    /\ instance_' = [instance_ EXCEPT
                        ![o] = [FreshInstance(instance_[other].value)
                                   EXCEPT !.origin = "move", !.source = other],
                        ![other].moved = TRUE]
    /\ var_alive' = [var_alive EXCEPT ![o] = TRUE]
    /\ var_pc' = [var_pc EXCEPT ![o] = "post"]
    /\ UNCHANGED <<panic_log, bad_cast>>

\* where control goes when call_post_constructor() returns: the constructors
\* from an owner or a view go on with their own body after the constructor
\* they delegated to
AfterPostConstructor(o) ==
    IF var_pc[o] = "post" /\ instance_[o].origin # "value" THEN "post_again" ELSE "alive"

\* call_post_constructor(): instance_.post_constructor(basic_ref{instance_,
\* &borrow_manager_}); the hook stores the view in the object (mint), which
\* is an assignment without effect on the manager if the object holds one
\* already, or lets it go
ipp_call_post_constructor(o, v, mint) ==
    /\ var_pc[o] \in {"post", "post_again", "emplaced"}
    /\ IF mint /\ instance_[o].self_view = NoRefSlot
       THEN /\ ~refs[v].alive
            /\ Commit(ref_base_construct(BorrowState, v, o))
            /\ instance_' = [instance_ EXCEPT ![o].self_view = v]
       ELSE UNCHANGED <<refs, counter_, ref_chain_root_, aborted, var_alive, panic_log,
                        bad_cast, instance_>>
    /\ var_pc' = [var_pc EXCEPT ![o] = AfterPostConstructor(o)]

\* emplace(): instance_.pre_destructor(), where the hook of the object type
\* releases the view of itself (releases) or not
emplace_pre_destructor(o, releases) ==
    /\ var_pc[o] = "alive"
    /\ IF releases /\ instance_[o].self_view # NoRefSlot
       THEN /\ Commit(ref_base_destroy(BorrowState, instance_[o].self_view))
            /\ instance_' = [instance_ EXCEPT ![o].self_view = NoRefSlot,
                                              ![o].released = TRUE]
       ELSE UNCHANGED <<refs, counter_, ref_chain_root_, aborted, var_alive, panic_log,
                        bad_cast, instance_>>
    /\ var_pc' = [var_pc EXCEPT ![o] = "destroy"]

emplace_construct_verifying(o, v) ==
    /\ var_pc[o] = "destroy"
    /\ var_destructor(o)
    /\ instance_' = [instance_ EXCEPT ![o] = FreshInstance(v)]
    /\ var_pc' = [var_pc EXCEPT ![o] = "emplaced"]

\* emplace(): instance_.~T(), which destroys the view the object still holds
\* of itself, and new (&instance_) T(args...): no dangling check in between
emplace_construct(o, v) ==
    /\ var_pc[o] = "destroy"
    /\ IF instance_[o].self_view # NoRefSlot
       THEN Commit(ref_base_destroy(BorrowState, instance_[o].self_view))
       ELSE UNCHANGED <<refs, counter_, ref_chain_root_, aborted, var_alive, panic_log,
                        bad_cast>>
    /\ instance_' = [instance_ EXCEPT ![o] = FreshInstance(v)]
    /\ var_pc' = [var_pc EXCEPT ![o] = "emplaced"]

NextVarIpp ==
    /\ ~aborted
    /\ \/ \E o \in Owners, v \in 0..MaxValue : basic_var_from_value(o, v)
       \/ \E o, other \in Owners : basic_var_copy(o, other)
       \/ \E o \in Owners, r \in Refs : basic_var_from_ref(o, r)
       \/ \E o, other \in Owners : basic_var_move(o, other)
       \/ \E o \in Owners, v \in Refs, mint \in BOOLEAN : ipp_call_post_constructor(o, v, mint)
       \/ \E o \in Owners, releases \in BOOLEAN : emplace_pre_destructor(o, releases)
       \/ \E o \in Owners, v \in 0..MaxValue : emplace_construct(o, v)
       \/ \E o \in Owners, releases \in BOOLEAN : call_pre_destructor(o, releases)
       \/ \E o \in Owners : var_destructor_end(o)
       \/ \E o \in Owners, v \in Refs :
             var_pc[o] = "alive" /\ borrow(o, v) /\ UNCHANGED ownerVars
       \/ \E v \in Refs \ SelfViews : ref_destructor(v) /\ UNCHANGED ownerVars
    /\ UNCHANGED <<mutexVars, threadVars, syncVars, ndebug, strategy, dangling_reference_panic,
                   bad_cast,
                   blindfolds, sharedVars, legacyVars, trackedVars>>

\* the hook of the tracked manager plays no part in construction and emplace
InitVarIpp == InitVar /\ dangling_reference_panic

SpecVarIpp == InitVarIpp /\ [][NextVarIpp]_vars

(***************************************************************************)
(* synchronized<T> as an owner: its members mutex_ (var), active_mutex_    *)
(* (ref) and protected_instance_ (var), and the two views every guard      *)
(* holds, protected_instance_ and mutex_.  PVar(s) and MVar(s) are the     *)
(* owners inside object s; ActiveRef(s) is its active_mutex_; every guard  *)
(* of thread t on object s has its two views, and so has the guard inside  *)
(* a blindfold of it (unlocked_guard_).  views[t][s].st is "none",         *)
(* "waiting" (constructed, inside lock()), "held", "blind" (moved into a   *)
(* blindfold, unlocked) or "unblind" (moved back, inside lock()).          *)
(***************************************************************************)
SyncOwners == 1..(2 * NumSyncs)

PVar(s) == s

MVar(s) == NumSyncs + s

ActiveRef(s) == s

GuardRefBase(t, s) == NumSyncs + 4 * ((t - 1) * NumSyncs + (s - 1))

\* guard::protected_instance_ and guard::mutex_ of the guard of t on s
GuardPRef(t, s) == GuardRefBase(t, s) + 1

GuardMRef(t, s) == GuardRefBase(t, s) + 2

\* the same members of blindfold::unlocked_guard_
BlindPRef(t, s) == GuardRefBase(t, s) + 3

BlindMRef(t, s) == GuardRefBase(t, s) + 4

\* condition::protected_instance_ of the condition bound to s
ConditionRef(s) == NumSyncs + 4 * NumClients * NumSyncs + s

SyncRefs == 1..(2 * NumSyncs + 4 * NumClients * NumSyncs)

\* the thread may construct one more guard
CanGuard(t) == Cardinality({s \in Syncs : views[t][s] # NoView}) < MaxGuards

\* ref_base(ref_base&&) of the manager in use
ref_base_move(S, src, dst) ==
    IF strategy = "counted" THEN counted_ref_base_move(S, src, dst)
    ELSE tracked_ref_base_move(S, src, dst)

\* guard(guard&&): protected_instance_ and mutex_ are move-constructed, in
\* this order, and the moved-from views are destroyed with their guard later
guard_refs_move(S, psrc, msrc, pdst, mdst) ==
    ref_base_move(ref_base_move(S, psrc, pdst), msrc, mdst)

\* the destructors of the two moved-from views
guard_refs_destroy(S, p, m) == ref_base_destroy(ref_base_destroy(S, m), p)

owned_guard_constructor_unmanaged(t, s) ==
    /\ var_alive[PVar(s)]
    /\ views[t][s] = NoView
    /\ CanGuard(t)
    /\ Commit(ref_base_construct(
                  ref_base_construct(BorrowState, GuardPRef(t, s), NoManager),
                  GuardMRef(t, s), NoManager))
    /\ views' = [views EXCEPT ![t][s] =
                    [st |-> "waiting", kind |-> "mut", mutex_ |-> active_mutex_[s]]]
    /\ UNCHANGED <<mutexes, active_mutex_, instances, call>>

\* guard<T>(const synchronized&) up to lock(): protected_instance_ borrows
\* other.protected_instance_, mutex_ is a copy of other.active_mutex_
owned_guard_constructor(t, s) ==
    /\ var_alive[PVar(s)]
    /\ views[t][s] = NoView
    /\ CanGuard(t)
    /\ Commit(ref_base_construct(
                  ref_base_construct(BorrowState, GuardPRef(t, s), PVar(s)),
                  GuardMRef(t, s), refs[ActiveRef(s)].borrow_manager_))
    /\ views' = [views EXCEPT ![t][s] =
                    [st |-> "waiting", kind |-> "mut", mutex_ |-> active_mutex_[s]]]
    /\ UNCHANGED <<mutexes, active_mutex_, instances, call>>

\* guard<const T>(const synchronized&) up to lock(): mutex_ borrows other.mutex_
owned_const_guard_constructor(t, s) ==
    /\ var_alive[PVar(s)]
    /\ views[t][s] = NoView
    /\ CanGuard(t)
    /\ Commit(ref_base_construct(
                  ref_base_construct(BorrowState, GuardPRef(t, s), PVar(s)),
                  GuardMRef(t, s), MVar(s)))
    /\ views' = [views EXCEPT ![t][s] = [st |-> "waiting", kind |-> "const", mutex_ |-> s]]
    /\ UNCHANGED <<mutexes, active_mutex_, instances, call>>

\* guard::lock(), once the wait of the mutex is over: at the end of the
\* constructor, and at the end of blindfold::unblind_original_guard, after
\* which the blindfold destroys its moved-from unlocked_guard_
owned_guard_lock(t, s) ==
    /\ views[t][s].st \in {"waiting", "unblind"}
    /\ IF views[t][s].kind = "mut"
       THEN mutex_lock(views[t][s].mutex_, t)
       ELSE mutex_lock_shared(views[t][s].mutex_, t)
    /\ IF views[t][s].st = "unblind"
       THEN Commit(guard_refs_destroy(BorrowState, BlindPRef(t, s), BlindMRef(t, s)))
       ELSE UNCHANGED <<var_alive, counter_, ref_chain_root_, refs, panic_log, aborted>>
    /\ views' = [views EXCEPT ![t][s].st = "held"]
    /\ UNCHANGED <<active_mutex_, instances, call>>

\* ~guard(): unlock(), then the two views are destroyed, mutex_ first
owned_guard_destructor(t, s) ==
    /\ views[t][s].st = "held"
    /\ IF views[t][s].kind = "mut"
       THEN mutex_unlock(views[t][s].mutex_, t)
       ELSE mutex_unlock_shared(views[t][s].mutex_, t)
    /\ Commit(guard_refs_destroy(BorrowState, GuardPRef(t, s), GuardMRef(t, s)))
    /\ views' = [views EXCEPT ![t][s] = NoView]
    /\ UNCHANGED <<active_mutex_, instances, call>>

\* blindfold(guard&): the guard is unlocked and moved into unlocked_guard_
owned_blindfold_constructor(t, s) ==
    /\ views[t][s].st = "held"
    /\ IF views[t][s].kind = "mut"
       THEN mutex_unlock(views[t][s].mutex_, t)
       ELSE mutex_unlock_shared(views[t][s].mutex_, t)
    /\ Commit(guard_refs_move(BorrowState, GuardPRef(t, s), GuardMRef(t, s),
                              BlindPRef(t, s), BlindMRef(t, s)))
    /\ views' = [views EXCEPT ![t][s].st = "blind"]
    /\ UNCHANGED <<active_mutex_, instances, call>>

\* ~blindfold() up to lock(): unlocked_guard_ is move-assigned to the
\* original guard, whose unlock() does nothing (it is moved-from)
owned_blindfold_destructor(t, s) ==
    /\ views[t][s].st = "blind"
    /\ Commit(ref_base_move_assign(
                  ref_base_move_assign(BorrowState, BlindPRef(t, s), GuardPRef(t, s)),
                  BlindMRef(t, s), GuardMRef(t, s)))
    /\ views' = [views EXCEPT ![t][s].st = "unblind"]
    /\ UNCHANGED <<mutexes, active_mutex_, instances, call>>

\* a.use_mutex_of(b): active_mutex_ is assigned from mutex_ of b, before a is
\* shared with anybody
owned_use_mutex_of(a, b) ==
    /\ var_alive[PVar(a)] /\ var_alive[MVar(b)]
    /\ \A t \in Clients : views[t][a] = NoView
    /\ active_mutex_[a] # b
    /\ Commit(register_self(
                  set_borrow_manager(unregister_self(BorrowState, ActiveRef(a)),
                                     ActiveRef(a), MVar(b)),
                  ActiveRef(a)))
    /\ active_mutex_' = [active_mutex_ EXCEPT ![a] = b]
    /\ UNCHANGED <<mutexes, instances, views, call>>

\* verify_dangling_references of owner o in borrow state S: the calls of the
\* panic function / hook it makes, and whether it aborts
VerifyCalls(S, o) ==
    IF strategy = "counted"
    THEN IF S.counter_[o] = 0 THEN <<>> ELSE <<[var |-> o, arg |-> S.counter_[o]]>>
    ELSE IF dangling_reference_panic
         THEN [i \in 1..Len(S.chain[o]) |-> [var |-> o, arg |-> i - 1, ref |-> S.chain[o][i]]]
         ELSE <<>>

VerifyAborts(S, o) ==
    IF strategy = "counted" THEN S.counter_[o] # 0 ELSE S.chain[o] # <<>>

VerifyPassed(S, o) ==
    IF strategy = "counted" THEN [S EXCEPT !.counter_[o] = SIZE_MAX] ELSE S

\* ~synchronized(): the members are destroyed in the reverse order of their
\* declaration: protected_instance_ (its views are verified), active_mutex_,
\* mutex_ (its views are verified); a failed verification aborts
synchronized_destructor(s) ==
    /\ var_alive[PVar(s)]
    /\ LET S0 == BorrowState
           ok0 == ~VerifyAborts(S0, PVar(s))
           S1 == ref_base_destroy(VerifyPassed(S0, PVar(s)), ActiveRef(s))
           ok1 == ~VerifyAborts(S1, MVar(s))
           S2 == IF ~ok0 THEN S0
                 ELSE IF ~ok1 THEN S1
                 ELSE VerifyPassed(S1, MVar(s))
       IN  /\ refs' = S2.refs
           /\ counter_' = S2.counter_
           /\ ref_chain_root_' = S2.chain
           /\ panic_log' = panic_log \o
                              (IF ~ok0 THEN VerifyCalls(S0, PVar(s))
                               ELSE VerifyCalls(S1, MVar(s)))
           /\ aborted' = (~ok0 \/ ~ok1 \/ (S2.failed /\ ~ndebug))
           /\ var_alive' = [var_alive EXCEPT ![PVar(s)] = FALSE,
                                             ![MVar(s)] = IF ok0 THEN FALSE ELSE @]
    /\ UNCHANGED sharedVars

(***************************************************************************)
(* Specification of NumSyncs synchronized objects that NumClients threads  *)
(* lock, blindfold and destroy                                             *)
(***************************************************************************)
InitOwned ==
    /\ MutexInit
    /\ ThreadInit
    /\ SyncInit
    /\ SharedInit
    /\ LegacyInit
    /\ TrackedInit
    /\ panic_action_ = "default"
    /\ OwnerInit
    /\ var_alive = [o \in SyncOwners |-> TRUE]
    /\ counter_ = [o \in SyncOwners |-> IF o > NumSyncs THEN 1 ELSE 0]
    /\ ref_chain_root_ = [o \in SyncOwners |->
                             IF o > NumSyncs THEN <<ActiveRef(o - NumSyncs)>> ELSE <<>>]
    /\ refs = [v \in SyncRefs |->
                  IF v <= NumSyncs THEN [alive |-> TRUE, borrow_manager_ |-> MVar(v)]
                  ELSE NoRef]
    /\ panic_log = <<>>
    /\ bad_cast = 0
    /\ strategy \in {"counted", "tracked"}
    /\ dangling_reference_panic \in BOOLEAN
    /\ aborted = FALSE
    /\ ndebug \in BOOLEAN

NextOwned ==
    /\ ~aborted
    /\ \/ \E t \in Clients, s \in Syncs : owned_guard_constructor(t, s)
       \/ \E t \in Clients, s \in Syncs : owned_const_guard_constructor(t, s)
       \/ \E t \in Clients, s \in Syncs : owned_guard_lock(t, s)
       \/ \E t \in Clients, s \in Syncs : owned_guard_destructor(t, s)
       \/ \E t \in Clients, s \in Syncs : owned_blindfold_constructor(t, s)
       \/ \E t \in Clients, s \in Syncs : owned_blindfold_destructor(t, s)
       \/ \E a, b \in Syncs : owned_use_mutex_of(a, b)
       \/ \E s \in Syncs : synchronized_destructor(s)
    /\ UNCHANGED <<mutexVars, threadVars, syncVars, ndebug, strategy, dangling_reference_panic,
                   bad_cast,
                   blindfolds, legacyVars, ownerVars, trackedVars>>

SpecOwned == InitOwned /\ [][NextOwned]_vars

(***************************************************************************)
(* synchronized<T>::condition as a holder of a view: the constructor       *)
(* borrows protected_instance_ of the synchronized object, and the member  *)
(* lives as long as the condition.  One condition per object.              *)
(***************************************************************************)
condition_constructor_unmanaged(s) ==
    /\ var_alive[PVar(s)]
    /\ ~refs[ConditionRef(s)].alive
    /\ Commit(ref_base_construct(BorrowState, ConditionRef(s), NoManager))
    /\ UNCHANGED sharedVars

\* condition(const synchronized& synched, criteria):
\* protected_instance_(synched.protected_instance_.borrow())
condition_constructor(s) ==
    /\ var_alive[PVar(s)]
    /\ ~refs[ConditionRef(s)].alive
    /\ Commit(ref_base_construct(BorrowState, ConditionRef(s), PVar(s)))
    /\ UNCHANGED sharedVars

\* ~condition(): the members are destroyed
condition_destructor(s) ==
    /\ refs[ConditionRef(s)].alive
    /\ Commit(ref_base_destroy(BorrowState, ConditionRef(s)))
    /\ UNCHANGED sharedVars

NextCondition ==
    /\ ~aborted
    /\ \/ \E s \in Syncs : condition_constructor(s)
       \/ \E s \in Syncs : condition_destructor(s)
       \/ \E t \in Clients, s \in Syncs : owned_guard_constructor(t, s)
       \/ \E t \in Clients, s \in Syncs : owned_guard_lock(t, s)
       \/ \E t \in Clients, s \in Syncs : owned_guard_destructor(t, s)
       \/ \E s \in Syncs : synchronized_destructor(s)
    /\ UNCHANGED <<mutexVars, threadVars, syncVars, ndebug, strategy, dangling_reference_panic,
                   bad_cast,
                   blindfolds, legacyVars, ownerVars, trackedVars>>

SpecCondition == InitOwned /\ [][NextCondition]_vars

(***************************************************************************)
(* tracked_borrow_manager with its mutex_: register_ref and unregister_ref *)
(* run under a lock_guard, and so does verify_dangling_references, whose   *)
(* walk over the chain is a sequence of steps here.  verifying[t] is the   *)
(* position of thread t in it: "none", "walk" (at the link index, mutex_   *)
(* locked) or "hook" (inside dangling_reference_panic for that link).      *)
(***************************************************************************)
\* std::lock_guard guard(mutex_) can be constructed
manager_mutex_free(o) == manager_mutex_[o] = NoThread

\* a view is constructed on owner o by thread t: register_ref under the lock
tracked_register_ref(t, o, v) ==
    /\ verifying[t] = NoVerify
    /\ manager_mutex_free(o)
    /\ borrow(o, v)
    /\ UNCHANGED trackedVars

\* a view is destroyed by thread t: unregister_ref under the lock
tracked_unregister_ref(t, v) ==
    /\ verifying[t] = NoVerify
    /\ refs[v].alive
    /\ refs[v].borrow_manager_ # NoManager => manager_mutex_free(refs[v].borrow_manager_)
    /\ ref_destructor(v)
    /\ UNCHANGED trackedVars

\* verify_dangling_references: the lock_guard is constructed; with an empty
\* chain the function returns and the guard is destroyed
tracked_verify_begin(t, o) ==
    /\ verifying[t] = NoVerify
    /\ var_alive[o]
    /\ manager_mutex_free(o)
    /\ var_alive' = [var_alive EXCEPT ![o] = FALSE]
    /\ IF ref_chain_root_[o] = <<>>
       THEN UNCHANGED trackedVars
       ELSE /\ manager_mutex_' = [manager_mutex_ EXCEPT ![o] = t]
            /\ verifying' = [verifying EXCEPT ![t] = [pc |-> "walk", var |-> o, index |-> 0]]
    /\ UNCHANGED <<refs, counter_, ref_chain_root_, panic_log, aborted>>

\* one turn of the loop: the hook is called for the current link if it holds
\* a callable, while the lock_guard of the function lives; after the last
\* link, abort()
tracked_verify_link(t) ==
    /\ verifying[t].pc = "walk"
    /\ LET o == verifying[t].var
           i == verifying[t].index
       IN  IF i >= Len(ref_chain_root_[o])
           THEN /\ aborted' = TRUE
                /\ UNCHANGED <<panic_log, trackedVars>>
           ELSE IF dangling_reference_panic
           THEN /\ panic_log' = Append(panic_log, [var |-> o, arg |-> i,
                                                   ref |-> ref_chain_root_[o][i + 1]])
                /\ verifying' = [verifying EXCEPT ![t].pc = "hook"]
                /\ UNCHANGED <<manager_mutex_, aborted>>
           ELSE /\ verifying' = [verifying EXCEPT ![t].index = i + 1]
                /\ UNCHANGED <<panic_log, manager_mutex_, aborted>>
    /\ UNCHANGED <<refs, counter_, ref_chain_root_, var_alive>>

\* dangling_reference_panic returns
tracked_hook_return(t) ==
    /\ verifying[t].pc = "hook"
    /\ verifying' = [verifying EXCEPT ![t] = [@ EXCEPT !.pc = "walk", !.index = @ + 1]]
    /\ UNCHANGED <<manager_mutex_, refs, counter_, ref_chain_root_, var_alive, panic_log, aborted>>

\* unregister_ref is called for a record v that is not linked in the chain
\* of o (reference_chain::unregister_ref is public; tracked_borrow_manager
\* calls it only from ref_base): the lock_guard is constructed and
\* get_previous_ptr_in_chain walks the chain
tracked_unregister_unlinked(t, o, v) ==
    /\ verifying[t] = NoVerify
    /\ var_alive[o]
    /\ manager_mutex_free(o)
    /\ get_previous_ptr_in_chain(BorrowState, o, v) = 0
    /\ manager_mutex_' = [manager_mutex_ EXCEPT ![o] = t]
    /\ verifying' = [verifying EXCEPT ![t] = [pc |-> "search", var |-> o, index |-> v]]
    /\ UNCHANGED <<refs, counter_, ref_chain_root_, var_alive, panic_log, aborted, bad_cast>>

\* the walk reaches the end of the chain: assert(current_link != nullptr)
\* fails.  Without asserts the null link is dereferenced, which is undefined:
\* the process ends, or the call returns and the guard is destroyed
tracked_search_end(t) ==
    /\ verifying[t].pc = "search"
    /\ \E crash \in BOOLEAN :
          IF ~ndebug \/ crash
          THEN /\ aborted' = TRUE
               /\ UNCHANGED trackedVars
          ELSE /\ manager_mutex_' = [manager_mutex_ EXCEPT ![verifying[t].var] = NoThread]
               /\ verifying' = [verifying EXCEPT ![t] = NoVerify]
               /\ UNCHANGED aborted
    /\ UNCHANGED <<refs, counter_, ref_chain_root_, var_alive, panic_log, bad_cast>>

InitTracked ==
    /\ MutexInit
    /\ ThreadInit
    /\ SyncInit
    /\ SharedInit
    /\ LegacyInit
    /\ TrackedInit
    /\ panic_action_ = "default"
    /\ OwnerInit
    /\ BorrowInit
    /\ strategy = "tracked"
    /\ dangling_reference_panic \in BOOLEAN
    /\ aborted = FALSE
    /\ ndebug \in BOOLEAN

NextTracked ==
    /\ ~aborted
    /\ \/ \E t \in Clients, o \in Owners, v \in Refs : tracked_register_ref(t, o, v)
       \/ \E t \in Clients, v \in Refs : tracked_unregister_ref(t, v)
       \/ \E t \in Clients, o \in Owners : tracked_verify_begin(t, o)
       \/ \E t \in Clients : tracked_verify_link(t)
       \/ \E t \in Clients : tracked_hook_return(t)
       \/ \E t \in Clients, o \in Owners, v \in Refs : tracked_unregister_unlinked(t, o, v)
       \/ \E t \in Clients : tracked_search_end(t)
    /\ UNCHANGED <<mutexVars, threadVars, syncVars, ndebug, strategy, dangling_reference_panic,
                   bad_cast,
                   blindfolds, sharedVars, legacyVars, ownerVars>>

SpecTracked == InitTracked /\ [][NextTracked]_vars

(***************************************************************************)
(* counted_borrow_manager driven through its public member functions by    *)
(* the threads: register_reference and unregister_reference are one atomic *)
(* read-modify-write each; verify_dangling_references is the               *)
(* compare_exchange_strong, then, if it failed, the load of the counter    *)
(* with the call of dangling_reference_panic, then abort().  verifying[t]  *)
(* is the position of thread t in it: "none", "load" (the exchange failed; *)
(* index is prev_value, the value it observed) or "hook" (inside           *)
(* dangling_reference_panic).  var_alive[o] says that verification of      *)
(* owner o has not been started.  borrow_counter of the counted_ref family *)
(* has the same three steps: close_counting, count, trigger_panic.         *)
(***************************************************************************)
\* counter_++ by thread t
counted_register_reference(t, o) ==
    /\ verifying[t] = NoVerify
    /\ counter_[o] < NumRefs
    /\ Commit(register_reference(BorrowState, o))
    /\ UNCHANGED trackedVars

\* counter_-- by thread t, with the assert on the previous value
counted_unregister_reference(t, o) ==
    /\ verifying[t] = NoVerify
    /\ counter_[o] >= SIZE_MAX
    /\ Commit(unregister_reference(BorrowState, o))
    /\ UNCHANGED trackedVars

\* counter_.compare_exchange_strong(prev_value, max()): on success the
\* function returns; on failure prev_value holds the value that was observed
counted_compare_exchange(t, o) ==
    /\ verifying[t] = NoVerify
    /\ var_alive[o]
    /\ var_alive' = [var_alive EXCEPT ![o] = FALSE]
    /\ IF counter_[o] = 0
       THEN /\ counter_' = [counter_ EXCEPT ![o] = SIZE_MAX]
            /\ UNCHANGED verifying
       ELSE /\ verifying' = [verifying EXCEPT ![t] = [pc |-> "load", var |-> o,
                                                      index |-> counter_[o]]]
            /\ UNCHANGED counter_
    /\ UNCHANGED <<manager_mutex_, refs, ref_chain_root_, panic_log, aborted, bad_cast>>

counted_load_prev_value(t) ==
    /\ verifying[t].pc = "load"
    /\ panic_log' = Append(panic_log, [var |-> verifying[t].var, arg |-> verifying[t].index])
    /\ verifying' = [verifying EXCEPT ![t].pc = "hook"]
    /\ UNCHANGED <<manager_mutex_, refs, counter_, ref_chain_root_, var_alive, aborted, bad_cast>>

\* num_dangling_references = counter_.load(); dangling_reference_panic(...)
counted_load(t) ==
    /\ verifying[t].pc = "load"
    /\ panic_log' = Append(panic_log, [var |-> verifying[t].var,
                                       arg |-> counter_[verifying[t].var]])
    /\ verifying' = [verifying EXCEPT ![t].pc = "hook"]
    /\ UNCHANGED <<manager_mutex_, refs, counter_, ref_chain_root_, var_alive, aborted, bad_cast>>

\* dangling_reference_panic returns: abort()
counted_abort(t) ==
    /\ verifying[t].pc = "hook"
    /\ aborted' = TRUE
    /\ UNCHANGED <<trackedVars, refs, counter_, ref_chain_root_, var_alive, panic_log, bad_cast>>

InitCounted ==
    /\ MutexInit
    /\ ThreadInit
    /\ SyncInit
    /\ SharedInit
    /\ LegacyInit
    /\ TrackedInit
    /\ panic_action_ = "default"
    /\ OwnerInit
    /\ BorrowInit
    /\ strategy = "counted"
    /\ dangling_reference_panic = TRUE
    /\ aborted = FALSE
    /\ ndebug \in BOOLEAN

NextCounted ==
    /\ ~aborted
    /\ \/ \E t \in Clients, o \in Owners : counted_register_reference(t, o)
       \/ \E t \in Clients, o \in Owners : counted_unregister_reference(t, o)
       \/ \E t \in Clients, o \in Owners : counted_compare_exchange(t, o)
       \/ \E t \in Clients : counted_load(t)
       \/ \E t \in Clients : counted_abort(t)
    /\ UNCHANGED <<mutexVars, threadVars, syncVars, ndebug, strategy, dangling_reference_panic,
                   blindfolds, sharedVars, legacyVars, ownerVars>>

SpecCounted == InitCounted /\ [][NextCounted]_vars

(***************************************************************************)
(* Properties of the shared_recursive_mutex                                *)
(***************************************************************************)
RECURSIVE SumOver(_, _)
SumOver(f, S) ==
    IF S = {} THEN 0
    ELSE LET x == CHOOSE y \in S : TRUE IN f[x] + SumOver(f, S \ {x})

Blocked(t) == pc[t] \in {"lock_wait", "lock_shared_wait"}

\* C1: exclusive and shared holds never coexist, and at most one thread holds
\* the lock exclusively, in every reachable state of the mutex.
C1_ExclusiveExcludesAll ==
    \A t \in Threads :
        excl[t] > 0 =>
            \A u \in Threads : shrd[u] = 0 /\ (u # t => excl[u] = 0)

C1_Witness ==
    \E t, u, v \in Threads :
        /\ t # u /\ u # v /\ t # v
        /\ excl[t] > 0
        /\ pc[u] = "lock_shared_wait"
        /\ ret[v] = "false"

\* C7: a thread holding the lock exclusively re-acquires it at once, each
\* acquisition deepening the hold by one, and the lock is free only when the
\* holder has released as often as it acquired.
C7_DepthMatches ==
    \A t \in Threads :
        excl[t] > 0 => lock_count_ = 0 - excl[t] /\ unique_owner_thread_ = t

C7_ReacquireStep ==
    \A t \in Threads :
        (excl[t] > 0 /\ (lock(t) \/ try_lock(t))) =>
            /\ excl'[t] = excl[t] + 1
            /\ lock_count_' = lock_count_ - 1
            /\ pc'[t] = "idle"

C8_Acquired(u) == excl'[u] > excl[u] \/ shrd'[u] > shrd[u]

C8_BlockedUntilFullRelease ==
    [][\A u \in Threads :
          C8_Acquired(u) => \A t \in Threads \ {u} : excl[t] = 0]_vars

C8_Witness ==
    \E t, u \in Threads :
        /\ t # u
        /\ excl[t] = 1
        /\ pc[t] = "idle"
        /\ Blocked(u)
        /\ u \notin mutex_free_condition_

\* C9: while nobody holds the lock exclusively a shared request never blocks
\* or fails, and the counter equals the number of outstanding shared holds.
C9_SharedCount ==
    lock_count_ >= 0 => lock_count_ = SumOver(shrd, Threads)

C9_SharedRefused(t) ==
    \/ t \in mutex_free_condition_' /\ t \notin mutex_free_condition_
         /\ pc'[t] = "lock_shared_wait"
    \/ try_lock_shared(t) /\ ret'[t] = "false"

C9_SharedStep ==
    \A t \in Threads :
        C9_SharedRefused(t) => \E u \in Threads : excl[u] > 0

C9_SharedNeverBlocks == [](C9_SharedCount) /\ [][C9_SharedStep]_vars

C9_Witness ==
    /\ \A t \in Threads : shrd[t] >= 1
    /\ lock_count_ = SumOver(shrd, Threads)
    /\ lock_count_ > NumThreads

(***************************************************************************)
(* Properties of the locked views                                          *)
(***************************************************************************)
\* C10: every registration made for a guard is removed exactly once, whatever
\* sequence of move constructions, move assignments and destructions the
\* guards go through: at every moment the registrations a thread has on the
\* mutex are exactly its guards that hold the lock, no assert fails, and the
\* counter is the sum of the registrations.
C10_ReleasedExactlyOnce ==
    /\ ~aborted
    /\ \A t \in Threads :
        /\ excl[t] = Cardinality(HeldSlots(t, "mut"))
        /\ shrd[t] = Cardinality(HeldSlots(t, "const"))
    /\ lock_count_ = SumOver(shrd, Threads) - SumOver(excl, Threads)

\* a guard was moved into another one which was then destroyed: the moved-from
\* guard is still alive and the mutex is free
C10_Witness ==
    \E t \in Threads, g \in Slots :
        /\ pc[t] = "idle"
        /\ is_moved_from(t, g)
        /\ \A h \in Slots \ {g} : guards[t][h].st = "none"
        /\ budget[t] = MaxCalls - 1
        /\ lock_count_ = 0

(***************************************************************************)
(* Properties of the condition wait                                        *)
(***************************************************************************)
\* C4: when a wait returns timeout, the registration of the caller's guard is
\* on the mutex again, exactly as it was before the call.
C4_TimeoutRestoresHold ==
    \A t \in Clients :
        (pc[t] = "cw_return" /\ ~op[t].met) =>
            Registered(t, WaitKind(t)) = op[t].before

\* C5: when a wait returns criteria_met, the criteria was evaluated true under
\* the caller's registration and nothing changed since: at the return the
\* value satisfies the criteria, the caller's registration is on the mutex as
\* before the call, and the mutex is locked in the caller's mode.
C5_CriteriaMetUnderLock ==
    \A t \in Clients :
        (pc[t] = "cw_return" /\ op[t].met) =>
            /\ fulfillment_criteria_(protected_instance_)
            /\ Registered(t, WaitKind(t)) = op[t].before
            /\ IF WaitKind(t) = "mut"
               THEN mutex_is_locked_unique_by_thread(t)
               ELSE mutex_is_locked_shared

\* C6: no wake-up is lost.  A thread in an untimed wait never is between the
\* removal of its registration and its sleep while the value already satisfies
\* the criteria; and, provided the other threads release their guards, a waiter
\* that was woken while the value satisfies the criteria returns criteria_met
\* (unless the value is changed back before).
C6_Woken(w) ==
    /\ pc[w] = "cw_sleeping"
    /\ ~op[w].timed
    /\ w \notin condition_variable_
    /\ fulfillment_criteria_(protected_instance_)

C6_Returned(w) ==
    \/ pc[w] = "idle" /\ ret[w] = "criteria_met"
    \/ ~fulfillment_criteria_(protected_instance_)

C6_OthersReleased(w) ==
    \A t \in Clients \ {w}, g \in Slots : guards[t][g].st \in {"none", "moved"}

C6_NoLostWakeup ==
    /\ [](\A w \in Clients :
            (pc[w] = "cw_sleep" /\ ~op[w].timed) => ~fulfillment_criteria_(protected_instance_))
    /\ \A w \in Clients : ([]<>C6_OthersReleased(w)) => (C6_Woken(w) ~> C6_Returned(w))

(***************************************************************************)
(* Properties of the borrow managers                                       *)
(***************************************************************************)
\* the views that refer to the manager of owner o, by the views' own fields
RegisteredViews(o) == {v \in Refs : refs[v].alive /\ refs[v].borrow_manager_ = o}

Destroyed(o) == var_alive[o] /\ ~var_alive'[o]

C3_NoViewsNoPanic ==
    [][\A o \in Owners :
        (Destroyed(o) /\ RegisteredViews(o) = {}) =>
            /\ ~aborted'
            /\ panic_log' = <<>>
            /\ strategy = "counted" => counter_'[o] = SIZE_MAX]_vars

\* an owner was destroyed without a report after a view of it was moved from:
\* the moved-from view is still alive
C3_Witness ==
    \E o \in Owners, v \in Refs :
        /\ ~var_alive[o]
        /\ ~aborted
        /\ refs[v].alive
        /\ refs[v].borrow_manager_ = NoManager

\* the registrations of a thread are exactly its held guards
HoldsMatchGuards(t) ==
    /\ excl[t] = Cardinality(HeldSlots(t, "mut"))
    /\ shrd[t] = Cardinality(HeldSlots(t, "const"))

\* the blindfolds of a thread that point to guard g
BlindfoldsOn(t, g) == {b \in Blinds : blindfolds[t][b].original_guard_ = g}

C11_Inaccessible ==
    \A t \in Clients, b \in Blinds :
        LET bf == blindfolds[t][b]
        IN  /\ HoldsMatchGuards(t)
            /\ bf.original_guard_ # NoSlot =>
                  /\ Cardinality(BlindfoldsOn(t, bf.original_guard_)) = 1
                  /\ bf.st = "alive" => is_moved_from(t, bf.original_guard_)
            /\ bf.unlocked_guard_.st = "unlocked" => bf.original_guard_ # NoSlot

C11_Step ==
    \A t \in Clients, g \in Slots :
        /\ \* construction: the guard gives up its hold and nothing else changes
           (BlindfoldsOn(t, g) = {} /\ BlindfoldsOn(t, g)' # {}) =>
              /\ guards'[t][g].st = "moved"
              /\ \A h \in Slots \ {g} : guards'[t][h] = guards[t][h]
              /\ \A b \in BlindfoldsOn(t, g)' :
                    /\ blindfolds'[t][b].unlocked_guard_.kind = guards[t][g].kind
                    /\ (guards[t][g].st = "unlocking") =
                       (blindfolds'[t][b].unlocked_guard_.st = "unlocked")
        /\ \* the end of the scope: the same kind of hold is taken again, by this
           \* guard and no other
           \A b \in BlindfoldsOn(t, g) :
              (blindfolds[t][b].st = "alive" /\ BlindfoldsOn(t, g)' = {}) =>
                 /\ guards'[t][g].kind = blindfolds[t][b].unlocked_guard_.kind
                 /\ guards'[t][g].st =
                       IF blindfolds[t][b].unlocked_guard_.st = "moved" THEN "moved"
                       ELSE IF t \in mutex_free_condition_' THEN "locking" ELSE "held"
                 /\ \A h \in Slots \ {g} : guards'[t][h] = guards[t][h]

\* C11: while a blindfold points to a guard, that guard is moved-from and its
\* hold is released (the registrations of the thread are exactly its held
\* guards); exactly one blindfold points to it, however the blindfold is
\* moved; when the last pointer goes, the guard takes the same kind of hold
\* again, so the registrations are what they were before the scope.
C11_BlindfoldScope == [](C11_Inaccessible) /\ [][C11_Step]_vars

\* a blindfold was moved, the target was destroyed, and the guard holds the
\* lock again while the moved-from blindfold is still there
C11_Witness ==
    \E t \in Clients, g \in Slots, b \in Blinds :
        /\ blindfolds[t][b] = [st |-> "alive", original_guard_ |-> NoSlot,
                               unlocked_guard_ |-> [st |-> "moved", kind |-> "mut"]]
        /\ \A c \in Blinds \ {b} : blindfolds[t][c] = NoBlindfold
        /\ guards[t][g] = [st |-> "held", kind |-> "mut"]
        /\ \A h \in Slots \ {g} : guards[t][h] = NoGuard
        /\ excl[t] = 1
        /\ budget[t] = MaxCalls - 1

\* C12: the value of a synchronized changes only in a step taken while the
\* mutex its active_mutex_ refers to is locked exclusively (by one thread, as
\* an exclusive lock has one owner).
C12_MutatedUnderExclusiveLock ==
    [][\A s \in Syncs :
          instances'[s] # instances[s] => mutexes[active_mutex_[s]].lock_count_ < 0]_vars

\* C20: when active_mutex_ of a refers to mutex_ of b, and b uses its own
\* mutex_, a thread that holds an exclusive view on a or on b excludes every
\* view of another thread on a and on b.
C20_SharedMutexExcludes ==
    \A a, b \in Syncs, t1, t2 \in Clients :
        (a # b /\ active_mutex_[a] = b /\ active_mutex_[b] = b /\ t1 # t2
            /\ \E x \in {a, b} : views[t1][x].st = "held" /\ views[t1][x].kind = "mut")
        => \A y \in {a, b} : views[t2][y].st # "held"

\* C13: once the panic action has been called for an owner destroyed with
\* views, the process is over: it was aborted, the value is not destroyed and
\* no further step is taken.
C13_PanicEndsOperation == panic_log # <<>> => aborted

\* C14: while a copy assignment between two views of the same owner is under
\* way, the count of that owner is what it was before the assignment.
C14_CountUnchangedWhileAssigning ==
    (assign # NoAssign /\ assign.owner # NoManager
        /\ refs[assign.src].borrow_manager_ = assign.owner)
    => counter_[assign.owner] = assign.before

\* an owner's constructor has built instance_ in this step
Constructed(o) == var_pc[o] = "none" /\ var_pc'[o] = "configure"

\* an assignment between owners was made in this step
Assigned == var_pc' = var_pc /\ instance_' # instance_

\* C15: the construction of an owner from another owner takes the value and
\* nothing else: the new owner has no view registered (counter zero, chain
\* empty), and every view and every other owner's tracking state is as
\* before; an assignment between owners leaves every view and every owner's
\* tracking state as it was.
C15_OnlyValueTransferred ==
    [][/\ \A o \in Owners :
             Constructed(o) =>
                /\ RegisteredViews(o)' = {}
                /\ counter_'[o] = 0 /\ ref_chain_root_'[o] = <<>>
                /\ instance_'[o].source # NoManager =>
                      instance_'[o].value = instance_[instance_'[o].source].value
                /\ refs' = refs
                /\ \A other \in Owners \ {o} :
                      /\ counter_'[other] = counter_[other]
                      /\ ref_chain_root_'[other] = ref_chain_root_[other]
       /\ Assigned =>
             /\ refs' = refs
             /\ counter_' = counter_
             /\ ref_chain_root_' = ref_chain_root_]_vars

\* an owner was copy-constructed from an owner that has views, and has none
C15_Witness ==
    \E o, other \in Owners :
        /\ var_pc[o] = "alive" /\ var_pc[other] = "alive"
        /\ instance_[o].origin = "copy" /\ instance_[o].source = other
        /\ instance_[o].value = instance_[other].value
        /\ instance_[o].value = MaxValue
        /\ Cardinality(RegisteredViews(other)) = 2
        /\ RegisteredViews(o) = {}

\* the verification of owner o reports through the panic path in this step
Reported == panic_log' # panic_log

\* the panic path is reachable: the counted manager always calls the panic
\* function, the tracked manager only a hook that holds a callable
CanReport == strategy = "counted" \/ dangling_reference_panic

C17_PostConstructorAfterBackPointer ==
    [][\A o \in Owners :
          (var_pc[o] = "post" /\ var_pc'[o] = "alive") =>
             /\ var_alive[o]
             /\ instance_[o].manager_ = o
             /\ ~aborted'
             /\ instance_'[o].self_view # NoRefSlot =>
                   /\ instance_'[o].self_view \in RegisteredViews(o)'
                   /\ IF strategy = "counted"
                      THEN counter_'[o] = counter_[o] + 1
                      ELSE Head(ref_chain_root_'[o]) = instance_'[o].self_view]_vars

\* a move-constructed owner whose object minted a self-view in the hook
C17_Witness ==
    \E o \in Owners :
        /\ var_pc[o] = "alive"
        /\ instance_[o].origin = "move"
        /\ instance_[o].self_view # NoRefSlot
        /\ RegisteredViews(o) = {instance_[o].self_view}

\* C18: the back-pointer of an object is null until its owner installs it and
\* designates the owner that holds the object from then on, whatever was
\* copied, moved or assigned; the self-view of the object is registered with
\* that owner.
C18_BackPointerStaysWithOwner ==
    \A o \in Owners :
        /\ instance_[o].manager_ = IF var_pc[o] \in {"post", "alive", "verify"} THEN o
                                   ELSE NoManager
        /\ instance_[o].self_view # NoRefSlot =>
              refs[instance_[o].self_view].borrow_manager_ = o

\* two owners, the second copy-constructed from the first and then assigned
\* from it: each object holds a self-view registered with its own owner, and
\* a view minted by borrow_from_this on the copy is registered with the copy
C18_Witness ==
    \E o, other \in Owners, v \in Refs :
        /\ o # other
        /\ var_pc[o] = "alive" /\ var_pc[other] = "alive"
        /\ instance_[o].origin = "copy" /\ instance_[o].source = other
        /\ instance_[other].self_view # NoRefSlot /\ instance_[o].self_view # NoRefSlot
        /\ v \notin SelfViews
        /\ RegisteredViews(o) = {v, instance_[o].self_view}
        /\ RegisteredViews(other) = {instance_[other].self_view}

\* the move construction of o in this step leaves every view where it was
MoveLeavesViews(o) ==
    (Constructed(o) /\ instance_'[o].origin = "move") =>
        /\ \A other \in Owners :
              other = instance_'[o].source =>
                 /\ RegisteredViews(other)' = RegisteredViews(other)
                 /\ instance_'[other].moved
        /\ RegisteredViews(o)' = {}

RegisteredWith(v, o) ==
    /\ refs[v].alive /\ refs[v].borrow_manager_ = o
    /\ IF strategy = "counted" THEN counter_[o] >= 1
       ELSE \E i \in 1..Len(ref_chain_root_[o]) : ref_chain_root_[o][i] = v

\* the guard of t on s holds a registered view of the protected value of s
\* and of the mutex it is bound to
HoldsRegisteredViews(t, s) ==
    CASE views[t][s].st \in {"waiting", "held", "unblind"} ->
            /\ RegisteredWith(GuardPRef(t, s), PVar(s))
            /\ RegisteredWith(GuardMRef(t, s), MVar(views[t][s].mutex_))
      [] views[t][s].st = "blind" ->
            /\ RegisteredWith(BlindPRef(t, s), PVar(s))
            /\ RegisteredWith(BlindMRef(t, s), MVar(views[t][s].mutex_))
      [] OTHER -> TRUE

SyncDestroyed(s) == var_alive[PVar(s)] /\ ~var_alive'[PVar(s)]

LockedViewsOf(s) == {t \in Clients : views[t][s].st \in {"held", "blind"}}

NotifyStep(t) == pc[t] \in {"unlock_notify", "unlock_shared_notify"} /\ pc'[t] = "idle"

\* the state thread w is blocked for has become possible
WaitedStatePossible(w) ==
    IF pc[w] = "lock_wait"
    THEN lock_is_free \/ mutex_is_locked_unique_by_thread(w)
    ELSE lock_is_free \/ mutex_is_locked_shared

\* C22: a release wakes a thread blocked in lock() or lock_shared() only when
\* the state the thread waits for has become possible; a release that leaves
\* the lock held, such as the inner release of a reentrant exclusive hold,
\* wakes nobody.
C22_WokenOnlyWhenPossible ==
    [][\A t \in Threads :
          NotifyStep(t) =>
             \A w \in mutex_free_condition_ \ mutex_free_condition_' :
                 WaitedStatePossible(w)]_vars

(***************************************************************************)
(* Properties of the verification of the tracked manager                   *)
(***************************************************************************)
ChainViews(c) == {c[i] : i \in 1..Len(c)}

\* the calls the hook receives for the chain c of owner o: one per link, in
\* the order of the chain, with the index and the creation context of the link
CallsPerRecord(o, c) == [i \in 1..Len(c) |-> [var |-> o, arg |-> i - 1, ref |-> c[i]]]

\* a view that is registered with an owner in this step becomes the head of
\* the chain, in front of the views that stay
RegisteredFirst ==
    \A o \in Owners, v \in Refs :
        (v \notin ChainViews(ref_chain_root_[o]) /\ v \in ChainViews(ref_chain_root_'[o])) =>
            /\ Head(ref_chain_root_'[o]) = v
            /\ Tail(ref_chain_root_'[o]) =
                  SelectSeq(ref_chain_root_[o],
                            LAMBDA w : w \in ChainViews(ref_chain_root_'[o]))

C24_HookCalledUnlocked ==
    \A t \in Clients :
        verifying[t].pc = "hook" => manager_mutex_[verifying[t].var] = NoThread

(***************************************************************************)
(* Properties of unmanaged views                                           *)
(***************************************************************************)
Unmanaged(v) == refs[v].alive /\ refs[v].borrow_manager_ = NoManager

\* the counters, the chains, the registered views and the reports stay as
\* they are
TrackingUnchanged ==
    /\ UNCHANGED <<counter_, ref_chain_root_, panic_log, aborted, var_alive>>
    /\ \A w \in Refs : refs[w].borrow_manager_ # NoManager => refs'[w] = refs[w]

Outstanding(o) == IF strategy = "counted" THEN counter_[o] ELSE Len(ref_chain_root_[o])

\* a down cast of the managed view src to a type the object has, the result
\* constructed as dst
DownCast(src, dst) ==
    /\ refs[src].borrow_manager_ # NoManager
    /\ ref_static_down_cast(src, dst, TRUE) \/ ref_dynamic_down_cast(src, dst, TRUE)

\* the cast yields a view registered with the owner of the source, the owner
\* has one outstanding view more, the source and all other views stay as they
\* are
CastRegisters ==
    \A src, dst \in Refs :
        DownCast(src, dst) =>
            /\ refs'[dst] = [alive |-> TRUE, borrow_manager_ |-> refs[src].borrow_manager_]
            /\ \A w \in Refs \ {dst} : refs'[w] = refs[w]
            /\ Outstanding(refs[src].borrow_manager_)' = Outstanding(refs[src].borrow_manager_) + 1
            /\ RegisteredViews(refs[src].borrow_manager_)' =
                  RegisteredViews(refs[src].borrow_manager_) \cup {dst}
            /\ \A o \in Owners \ {refs[src].borrow_manager_} : Outstanding(o)' = Outstanding(o)
            /\ ~aborted'

C27_FailedCastChangesNothing ==
    [][\A src, dst \in Refs :
          (refs[src].borrow_manager_ # NoManager /\ ref_dynamic_down_cast(src, dst, FALSE)) =>
              /\ bad_cast' = bad_cast + 1
              /\ UNCHANGED <<refs, counter_, ref_chain_root_, var_alive, panic_log, aborted>>
              /\ src \in RegisteredViews(refs[src].borrow_manager_)'
              /\ ~refs'[dst].alive]_vars

\* a cast of the only view of owner 1 has failed: the view is still the only
\* registered one and the process goes on
C27_Witness ==
    /\ bad_cast = 1
    /\ ~aborted
    /\ strategy = "counted"
    /\ refs[1] = [alive |-> TRUE, borrow_manager_ |-> 1]
    /\ ~refs[2].alive /\ ~refs[3].alive
    /\ counter_ = [o \in Owners |-> IF o = 1 THEN 1 ELSE 0]
    /\ panic_log = <<>>

(***************************************************************************)
(* Properties of the counter of the counted manager                        *)
(***************************************************************************)
\* the counter of every owner that has not been destroyed is the number of
\* the live views registered with it
CounterIsLiveViews ==
    \A o \in Owners : var_alive[o] => counter_[o] = Cardinality(RegisteredViews(o))

\* a view that was moved from holds no registration
MovedFromUnregistered ==
    \A src, dst \in Refs :
        (src # dst /\ (ref_move_constructor(src, dst) \/ ref_move_assignment(src, dst))) =>
            /\ refs'[src].alive
            /\ refs'[src].borrow_manager_ = NoManager

\* the destruction of a view without registration changes no counter, an
\* assignment to it lowers none
UnregisteredDecrementsNothing ==
    \A v \in Refs :
        Unmanaged(v) =>
            /\ ref_destructor(v) => UNCHANGED counter_
            /\ \A src \in Refs :
                  (ref_copy_assignment(src, v) \/ ref_move_assignment(src, v)) =>
                      \A o \in Owners : counter_'[o] >= counter_[o]

\* C28: under the counted manager, after any sequence of borrows, copy and
\* move constructions, copy and move assignments (between views of the same or
\* of different owners) and destructions of views, the counter of every owner
\* equals the number of live views registered with it; a moved-from view holds
\* no registration, and its destruction or reassignment decrements no counter.
C28_CounterCountsViews ==
    /\ [](strategy = "counted" => CounterIsLiveViews)
    /\ [][strategy = "counted" => MovedFromUnregistered /\ UnregisteredDecrementsNothing]_vars

\* view 1 was moved from (it is alive without registration) while views of
\* both owners are registered, one each
C28_Witness ==
    /\ strategy = "counted"
    /\ ~aborted
    /\ Unmanaged(1)
    /\ refs[2] = [alive |-> TRUE, borrow_manager_ |-> 1]
    /\ refs[3] = [alive |-> TRUE, borrow_manager_ |-> 2]
    /\ counter_ = [o \in Owners |-> 1]
    /\ \A o \in Owners : var_alive[o]

(***************************************************************************)
(* Properties of the lock counter under the locked views                   *)
(***************************************************************************)
\* the thread is inside wait with guard g, and its hold is not registered:
\* before the predicate has registered it, or asleep
WaitingWithout(t, g) ==
    /\ pc[t] \in {"cw_pred", "cw_regwait", "cw_sleep", "cw_sleeping"}
    /\ op[t].slot = g

\* the live locked views of a thread that hold the lock: not moved from, not
\* given up to a blindfold, not asleep inside wait
LiveViews(t, kind) == {g \in HeldSlots(t, kind) : ~WaitingWithout(t, g)}

\* C29: in every state reachable through guards and condition waits (with
\* and without timeout) no release assertion has failed, and the lock counter
\* is the number of live shared views, or minus the number of live exclusive
\* views, which are all views of the recorded owner thread, or zero when no
\* view is live; views asleep inside wait are not counted.
C29_CounterMatchesViews ==
    /\ ~aborted
    /\ lock_count_ = SumOver([t \in Threads |-> Cardinality(LiveViews(t, "const"))], Threads)
                     - SumOver([t \in Threads |-> Cardinality(LiveViews(t, "mut"))], Threads)
    /\ lock_count_ > 0 => \A t \in Threads : LiveViews(t, "mut") = {}
    /\ lock_count_ < 0 =>
          /\ \A t \in Threads : LiveViews(t, "const") = {}
          /\ \A t \in Threads : LiveViews(t, "mut") # {} => t = unique_owner_thread_

(***************************************************************************)
(* Properties of the sleep inside wait                                     *)
(***************************************************************************)
\* the guards that hold the lock apart from the one thread w waits with
OtherHolds(w) ==
    {<<t, g>> \in Threads \X Slots :
        guards[t][g].st = "held" /\ ~(t = w /\ g = op[w].slot)}

\* C30: while a thread is asleep inside wait, the hold of the guard it waits
\* with is not registered on the mutex, and if no other guard holds the lock
\* the mutex is free, so that an exclusive request of another thread is
\* granted at once.
C30_AsleepWithoutHold ==
    \A w \in Clients :
        pc[w] = "cw_sleeping" =>
            /\ Registered(w, WaitKind(w)) = Cardinality(HeldSlots(w, WaitKind(w))) - 1
            /\ OtherHolds(w) = {} => lock_count_ = 0

(***************************************************************************)
(* Properties of the wake-up of blocked acquirers                          *)
(***************************************************************************)
\* the thread sleeps on mutex_free_condition_
Asleep(t) == t \in mutex_free_condition_

\* a woken thread that finds the lock free is granted its hold
WokenOnFreeIsGranted ==
    \A t \in Threads :
        (lock_is_free /\ (lock_wakeup(t) \/ lock_shared_wakeup(t))) =>
            /\ pc'[t] = "idle"
            /\ Holds(t)' = Holds(t) + 1

\* every granted hold is eventually released: again and again the thread
\* holds nothing
HoldsReleased == \A u \in Threads : []<>(Holds(u) = 0)

InHook(t) == verifying[t].pc = "hook"

\* the count that was handed to the hook for owner o
ReportedCounts(o) == { panic_log[i].arg : i \in { j \in 1..Len(panic_log) : panic_log[j].var = o } }

\* thread t takes the step from the failed exchange to the call of the hook
CallsHook(t) == verifying[t].pc = "load" /\ verifying'[t].pc = "hook"

\* C32 as stated: when Counted verification fails, the count handed to the
\* panic hook is the value the failed compare-and-swap observed, and it is at
\* least 1, also when other threads register or release views meanwhile.
C32_AsStated ==
    \A t \in Clients :
        InHook(t) => /\ ReportedCounts(verifying[t].var) = {verifying[t].index}
                     /\ verifying[t].index # 0

\* C32: when Counted verification fails, the value the compare-and-swap
\* observed is not 0, and the count handed to the panic hook (once per owner)
\* is the value of the counter at a second read made after the failed swap;
\* it is the observed value if the counter has that value again at the read.
C32_CountIsSecondRead ==
    [][\A t \in Clients :
         CallsHook(t) =>
            LET o == verifying[t].var IN
            /\ verifying[t].index # 0
            /\ ReportedCounts(o) = {}
            /\ ReportedCounts(o)' = {counter_[o]}
            /\ counter_[o] = verifying[t].index => ReportedCounts(o)' = {verifying[t].index}]_vars

\* the hook has been called with a count that differs from the observed one:
\* the last registration was released between the swap and the second read
C32_Witness ==
    \E t \in Clients :
        /\ InHook(t)
        /\ verifying[t].index = 1
        /\ ReportedCounts(verifying[t].var) = {0}

\* a thread makes the compare_exchange_strong of owner o in this step
Exchanges(o) == var_alive[o] /\ ~var_alive'[o]

\* the exchange succeeds (the function returns, no thread goes on to the
\* load) exactly on a counter of 0 and then stores max()
SucceedsExactlyAtZero ==
    \A o \in Owners :
        Exchanges(o) =>
            /\ (verifying' = verifying) <=> (counter_[o] = 0)
            /\ counter_'[o] = IF counter_[o] = 0 THEN SIZE_MAX ELSE counter_[o]

\* the counter of owner o was closed by a successful verification
Closed(o) == ~var_alive[o] /\ counter_[o] = SIZE_MAX /\ ReportedCounts(o) = {}

\* a closed counter stays closed: no registration is taken any more
ClosedAdmitsNoBorrow == \A o \in Owners : Closed(o) => counter_'[o] = SIZE_MAX

\* a decrement of a counter that is 0 ends the process
UnderflowIsFatal ==
    \A o \in Owners : (counter_[o] = 0 /\ counter_'[o] = SIZE_MAX /\ var_alive'[o] = var_alive[o])
                          => aborted'

\* C33 as stated: Counted verification succeeds exactly when the counter is 0
\* at the atomic step and then sets it to the maximum value; a closed counter
\* admits no further borrows; an unregister on a counter of 0 is detected as
\* fatal instead of wrapping the counter around silently.
C33_AsStated == [][SucceedsExactlyAtZero /\ ClosedAdmitsNoBorrow /\ UnderflowIsFatal]_vars

(***************************************************************************)
(* Properties of the chain of the tracked manager                          *)
(***************************************************************************)
ChainRecords(o) == { ref_chain_root_[o][i] : i \in 1..Len(ref_chain_root_[o]) }

Without(chain, v) == SelectSeq(chain, LAMBDA r : r # v)

\* the chain holds the registered records and each of them once
ChainIsRegistered ==
    \A o \in Owners :
        /\ ChainRecords(o) = RegisteredViews(o)
        /\ Len(ref_chain_root_[o]) = Cardinality(ChainRecords(o))

\* a record that gets registered becomes the head, before the others in
\* their order
RegisteredAtHead ==
    \A o \in Owners, v \in Refs :
        (v \notin ChainRecords(o) /\ v \in ChainRecords(o)')
            => ref_chain_root_'[o] = <<v>> \o ref_chain_root_[o]

\* a record that gets unregistered is taken out, the others keep their order
UnregisteredOnly ==
    \A o \in Owners, v \in Refs :
        (v \in ChainRecords(o) /\ v \notin ChainRecords(o)')
            => ref_chain_root_'[o] = Without(ref_chain_root_[o], v)

\* a search for a record that is not linked ends the process
UnlinkedIsFatal ==
    \A t \in Clients : (verifying[t].pc = "search" /\ verifying'[t].pc # "search") => aborted'

\* C34 as stated: under the Tracked strategy, after any interleaving of
\* register and unregister calls the owner's list holds exactly the
\* registered records, each once, newest first; unregister removes only the
\* given record and keeps the order of the others; unregistering a record
\* that is not in the list is detected as fatal.
C34_AsStated ==
    [][ChainIsRegistered' /\ RegisteredAtHead /\ UnregisteredOnly /\ UnlinkedIsFatal]_vars

(***************************************************************************)
(* Properties of emplace and of the constructors of basic_var.ipp          *)
(***************************************************************************)
\* owner o is inside emplace() before this step
InEmplace(o) == var_pc[o] \in {"destroy", "emplaced"}

\* owner o takes a step of emplace()
EmplaceStep(o) ==
    \/ var_pc[o] = "alive" /\ var_pc'[o] = "destroy"
    \/ InEmplace(o) /\ var_pc'[o] # var_pc[o]

\* the views that are not the view an object holds of itself
OtherViews == Refs \ (SelfViews \cup SelfViews')

\* C35: emplace on an owner runs the pre-destruction hook, replaces the value
\* in place and runs the post-construction hook without any dangling check
\* (nothing is reported and the process goes on, whatever is registered);
\* apart from the view the object holds of itself, which the hooks and the
\* value's destructor register and release, every view is as before and
\* registered with the same owner, and every other owner's tracking state is
\* unchanged.
C35_EmplaceKeepsViews ==
    [][\A o \in Owners :
         EmplaceStep(o) =>
            /\ panic_log' = panic_log
            /\ ~aborted'
            /\ var_alive'[o]
            /\ \A v \in OtherViews : refs'[v] = refs[v]
            /\ RegisteredViews(o)' \cap OtherViews = RegisteredViews(o) \cap OtherViews
            /\ \A other \in Owners \ {o} :
                  /\ counter_'[other] = counter_[other]
                  /\ ref_chain_root_'[other] = ref_chain_root_[other]
            /\ var_pc[o] = "destroy" => var_pc'[o] = "emplaced"
            /\ var_pc[o] = "emplaced" => var_pc'[o] = "alive"]_vars

\* emplace has replaced the value of an owner while a view that is not the
\* object's own is registered with it
C35_Witness ==
    \E o \in Owners, v \in Refs \ SelfViews :
        /\ var_pc[o] = "emplaced"
        /\ instance_[o].value = MaxValue
        /\ v \in RegisteredViews(o)
        /\ panic_log = <<>>

\* call_post_constructor() runs the hook of owner o in this step, inside a
\* constructor
HookRuns(o) == var_pc[o] \in {"post", "post_again"} /\ var_pc'[o] # var_pc[o]

\* C36 as stated: the post-construction hook is invoked exactly once per
\* owner construction, for every constructor: the invocation is the first of
\* the construction and the constructor returns after it.
C36_HookOncePerConstruction ==
    [][\A o \in Owners : HookRuns(o) => (var_pc[o] = "post" /\ var_pc'[o] = "alive")]_vars

(***************************************************************************)
(* Reentrancy and the lock modes                                           *)
(***************************************************************************)
\* thread t is granted a shared / an exclusive hold in this step
GrantedShared(t) == shrd'[t] > shrd[t]

GrantedUnique(t) == excl'[t] > excl[t]

\* C37: reentrancy does not cross lock modes: a shared request of a thread is
\* granted only when the thread has no exclusive hold, an exclusive request
\* only when it has no shared hold, and a thread that waits for such a
\* request while it keeps its earlier hold stays blocked.
C37_NoCrossModeReentrancy ==
    [][\A t \in Threads :
         /\ GrantedShared(t) => excl[t] = 0
         /\ GrantedUnique(t) => shrd[t] = 0
         /\ (pc[t] = "lock_shared_wait" /\ excl[t] > 0) => pc'[t] = "lock_shared_wait"
         /\ (pc[t] = "lock_wait" /\ shrd[t] > 0) => pc'[t] = "lock_wait"]_vars

\* a thread that holds the lock exclusively waits for a shared hold and has
\* been woken, and before that another thread was refused
C37_Witness ==
    \E t, u \in Threads :
        /\ t # u
        /\ pc[t] = "lock_shared_wait" /\ excl[t] > 0 /\ ~Asleep(t)
        /\ pc[u] = "lock_wait" /\ shrd[u] = 0 /\ Asleep(u)

(***************************************************************************)
(* wait on a criteria that is met already                                  *)
(***************************************************************************)
\* the registration of waiting_predicate is granted at once to thread t
GrantedAtOnce(t) ==
    IF WaitKind(t) = "mut"
    THEN lock_is_free \/ mutex_is_locked_unique_by_thread(t)
    ELSE lock_is_free \/ mutex_is_locked_shared

\* thread t is inside wait and has not yet slept
InWait(t) == pc[t] \in {"cw_pred", "cw_eval", "cw_return"}

CriteriaMet == fulfillment_criteria_(protected_instance_)

\* thread t calls wait in this step while the criteria is met: it goes on
\* with the internal mutex and a registration that will be granted at once
CalledWhenMet(t) ==
    (pc[t] = "idle" /\ pc'[t] = "cw_pred" /\ CriteriaMet)
        => (~aborted' /\ internal_mutex_' = t /\ GrantedAtOnce(t)' /\ CriteriaMet')

\* the steps of thread t from there to the return: registration, evaluation,
\* return of criteria_met, none of them sleeping or notifying
ReturnsAtOnce(t) ==
    /\ (pc[t] = "cw_pred" /\ pc'[t] # "cw_pred" /\ internal_mutex_ = t /\ GrantedAtOnce(t))
          => (pc'[t] = "cw_eval" /\ internal_mutex_' = t)
    /\ (pc[t] = "cw_eval" /\ pc'[t] # "cw_eval" /\ CriteriaMet)
          => (pc'[t] = "cw_return" /\ op'[t].met /\ internal_mutex_' = t)
    /\ (pc[t] = "cw_return" /\ pc'[t] # "cw_return" /\ op[t].met)
          => (pc'[t] = "idle" /\ ret'[t] = "criteria_met")
    /\ (InWait(t) /\ pc'[t] # pc[t] /\ internal_mutex_ = t /\ CriteriaMet /\ GrantedAtOnce(t))
          => (mutex_free_condition_' = mutex_free_condition_
              /\ condition_variable_' = condition_variable_)

\* while thread t is there with the internal mutex, no other thread gets or
\* gives up a hold and the value stays as it is
NobodyElseActs(t) ==
    (InWait(t) /\ internal_mutex_ = t /\ GrantedAtOnce(t)) =>
        /\ \A u \in Clients \ {t} : excl'[u] = excl[u] /\ shrd'[u] = shrd[u]
        /\ protected_instance_' = protected_instance_

\* C38 as stated: if the criteria is met when wait is called, wait returns
\* criteria_met without sleeping and without notifying the threads that wait
\* for the lock, and no other thread acquires the lock between the call and
\* the return, the internal mutex being held all the time.
C38_MetReturnsAtOnce ==
    [][\A t \in Clients : CalledWhenMet(t) /\ ReturnsAtOnce(t) /\ NobodyElseActs(t)]_vars

(***************************************************************************)
(* Properties of a condition as a holder of a view                         *)
(***************************************************************************)
\* the condition bound to s exists
ConditionExists(s) == refs[ConditionRef(s)].alive

====
